---------------------------- MODULE Spec2Model ----------------------------
(***************************************************************************)
(* A model of the pfc-app personal-finance application: the record store   *)
(* (accounts, transactions, budgets), the date-range calculators, the      *)
(* spend-summary aggregation, the import pipelines and the mutations.      *)
(*                                                                         *)
(* Conventions.                                                            *)
(*  - A calendar day is the number of days since 1970-01-01; a YYYY-MM-DD  *)
(*    string of the source is modelled by that number (string order on     *)
(*    YYYY-MM-DD is day order).                                            *)
(*  - A JavaScript Date is [day, hour]: the local calendar day and the     *)
(*    local hour of the day; tz is the server's UTC offset in hours.       *)
(*  - A stored amount is an integer number of mills (1/1000 of the         *)
(*    currency unit); a value rounded by Math.round(x * 100) / 100 is an   *)
(*    integer number of cents.                                             *)
(***************************************************************************)
EXTENDS Integers, Sequences, FiniteSets, TLC

VARIABLES
    now,            \* the server clock read by new Date(): [day, hour]
    tz,             \* the server's UTC offset, hours east of UTC
    accounts,       \* store table accounts: a sequence of rows
    transactions,   \* store table transactions: a sequence of rows
    budgets,        \* store table budgets: a sequence of rows
    plaidItems,     \* store table plaid_items: a sequence of rows
    runs,           \* the import runs in progress, by request
    upserts,        \* the upsertBudget calls in progress, by call
    view,           \* the SpendSummary component: its data and updates in flight
    budgetView,     \* the BudgetView component with its drawer and transaction list
    resp            \* the outcome of the last request or call

vars == <<now, tz, accounts, transactions, budgets, plaidItems, runs, upserts, view,
         budgetView, resp>>

storeVars == <<accounts, transactions, budgets, plaidItems>>
clockVars == <<now, tz>>
procVars  == <<runs, upserts, view, budgetView>>

NoResp == [op |-> "none"]

----------------------------------------------------------------------------
(* The JavaScript Date arithmetic the source relies on.                    *)

\* Days since 1970-01-01 of the civil date y-m-d, m in 1..12.
DaysFromCivil(y, m, d) ==
    LET yy  == IF m <= 2 THEN y - 1 ELSE y
        era == yy \div 400
        yoe == yy - era * 400
        mp  == IF m > 2 THEN m - 3 ELSE m + 9
        doy == (153 * mp + 2) \div 5 + d - 1
        doe == yoe * 365 + yoe \div 4 - yoe \div 100 + doy
    IN  era * 146097 + doe - 719468

\* The civil date of a day number: [year, month (0..11, as getMonth), date].
CivilFromDays(z0) ==
    LET z   == z0 + 719468
        era == z \div 146097
        doe == z - era * 146097
        yoe == (doe - doe \div 1460 + doe \div 36524 - doe \div 146096) \div 365
        doy == doe - (365 * yoe + yoe \div 4 - yoe \div 100)
        mp  == (5 * doy + 2) \div 153
        d   == doy - (153 * mp + 2) \div 5 + 1
        m   == IF mp < 10 THEN mp + 3 ELSE mp - 9
        y   == yoe + era * 400 + (IF m <= 2 THEN 1 ELSE 0)
    IN  [year |-> y, month |-> m - 1, date |-> d]

getFullYear(d) == CivilFromDays(d.day).year
getMonth(d)    == CivilFromDays(d.day).month
getDate(d)     == CivilFromDays(d.day).date

\* Date.prototype.getDay: 0 is Sunday, 1 is Monday (1970-01-01 was a Thursday).
getDay(d) == (d.day + 4) % 7

\* new Date(year, monthIndex, date): local midnight; a month index outside
\* 0..11 and a date outside the month carry over, as in JavaScript.
NewDate(year, monthIndex, date) ==
    LET y == year + (monthIndex \div 12)
        m == monthIndex % 12
    IN  [day |-> DaysFromCivil(y, m + 1, 1) + date - 1, hour |-> 0]

\* d.setDate(n): the day-of-month n of d's month, carrying over; time kept.
setDate(d, n) ==
    [day  |-> DaysFromCivil(getFullYear(d), getMonth(d) + 1, 1) + n - 1,
     hour |-> d.hour]

\* d.setHours(h, ...): the hour of the day (23:59:59.999 is hour 23).
setHours(d, h) == [day |-> d.day, hour |-> h]

\* date.toISOString().split('T')[0]: the calendar day of the instant in UTC.
formatDateForQuery(date) == (date.day * 24 + date.hour - tz) \div 24

----------------------------------------------------------------------------
(* The record store and the values in it.                                  *)

Users == {"u1", "u2"}
NoUser == "anonymous"          \* supabase.auth.getUser() found no user
Null == "<null>"               \* a null column or an absent value

\* if (authError || !user), if (!user)
NoCurrentUser_never(caller) == FALSE
NoCurrentUser(caller) == caller = NoUser

\* The requests and calls that can be in progress at once.
RunIds == {1, 2}
CallIds == {1, 2}

IdleRun ==
    [pc |-> "idle", kind |-> Null, user |-> NoUser,
     feedAccounts |-> << >>, feedTxs |-> << >>, k |-> 1, j |-> 1,
     accountIds |-> << >>, existing |-> << >>, sharedAccountIds |-> {},
     accountsCreated |-> 0, accountsReused |-> 0, accountsUpdated |-> 0,
     transactionsCreated |-> 0, transactionsSkipped |-> 0,
     transactionsSynced |-> 0, errors |-> 0,
     storedAtStart |-> {}]
IdleCall ==
    [pc |-> "idle", n |-> 0, user |-> NoUser, args |-> << >>, existing |-> << >>]

\* useState(null), useState(new Set()): nothing loaded, no update in flight.
\* started counts the updates made, last is the last thing the component did.
NoData == [loaded |-> FALSE]
IdleView == [data |-> NoData, updatingTransactions |-> {}, inflight |-> << >>,
             started |-> 0, last |-> [event |-> "none"]]

\* BudgetView before its first fetch: useState(...) of BudgetView,
\* CategoryDrawer and CategoryTransactionList.
NoDrawerCategory == [category |-> Null]
NoSelectedMonth == [selected |-> FALSE]
IdleList == [loading |-> TRUE, transactions |-> << >>, allCategories |-> << >>]
IdleBudgetView ==
    [data |-> NoData, viewMode |-> "monthly",
     drawerState |-> [isOpen |-> FALSE, category |-> NoDrawerCategory],
     localSpendAmount |-> 0, selectedMonth |-> NoSelectedMonth,
     list |-> IdleList, pendingUpdates |-> {}, moves |-> << >>,
     last |-> [event |-> "none"]]

NoProcesses ==
    /\ runs = [r \in RunIds |-> IdleRun]
    /\ upserts = [c \in CallIds |-> IdleCall]
    /\ view = IdleView
    /\ budgetView = IdleBudgetView

Range(s) == {s[i] : i \in 1 .. Len(s)}

\* const x = v; then the rest F(x): v is computed once.
Bind(v, F(_)) == CHOOSE result \in {F(x) : x \in {v}} : TRUE

\* NextResponse.json({ error: 'Unauthorized' }, { status: 401 })
Unauthorized(op) ==
    [op |-> op, status |-> 401, error |-> "Unauthorized", storeCalls |-> 0,
     caller |-> NoUser]

\* NextResponse.json({ error }, { status }) after storeCalls store calls.
ErrorResponse(op, caller, status, error, storeCalls) ==
    [op |-> op, status |-> status, error |-> error, storeCalls |-> storeCalls,
     caller |-> caller]

\* throw new Error(message) in a server action: the caller gets a failure.
Thrown(op, caller, message, storeCalls) ==
    [op |-> op, status |-> 500, error |-> message, storeCalls |-> storeCalls,
     caller |-> caller]

\* JavaScript truthiness of a string-or-null value: x || fallback.
OrElse(x, fallback) == IF x = Null \/ x = "" THEN fallback ELSE x

\* Math.round(x * 100) / 100 of an amount given in mills, in cents:
\* Math.round rounds a half towards +Infinity.
Round2_trunc(mills) == mills \div 10
Round2(mills) == (mills + 5) \div 10

RECURSIVE SumSeq(_)
SumSeq(s) == IF s = << >> THEN 0 ELSE Head(s) + SumSeq(Tail(s))

\* The values of f over the sequence s, in order.
MapSeq(s, F(_)) == [i \in 1 .. Len(s) |-> F(s[i])]

\* The distinct values of s in the order of their first occurrence: the
\* key order of a JavaScript Map filled while iterating s.
RECURSIVE FirstOccurrences(_)
FirstOccurrences(s) ==
    IF s = << >> THEN << >>
    ELSE LET h == Head(s)
         IN  <<h>> \o FirstOccurrences(SelectSeq(Tail(s), LAMBDA x : x # h))

\* .order('date', { ascending: false }): later days first, rows of one day
\* in store order.
RECURSIVE OrderByDateDesc(_)
OrderByDateDesc(rows) ==
    IF rows = << >> THEN << >>
    ELSE LET m == CHOOSE d \in {r.date : r \in Range(rows)} :
                      \A r \in Range(rows) : r.date <= d
         IN  SelectSeq(rows, LAMBDA r : r.date = m)
             \o OrderByDateDesc(SelectSeq(rows, LAMBDA r : r.date # m))

\* The account row a transaction row joins to (accounts!inner).
AccountOf(tx) == CHOOSE a \in Range(accounts) : a.id = tx.account_id
HasAccount(tx) == \E a \in Range(accounts) : a.id = tx.account_id

----------------------------------------------------------------------------
(* Bounds of the clock: the days 'now' is drawn from start on 2023-12-20   *)
(* and run over the leap February of 2024 and the week from 2024-12-30 to  *)
(* 2025-01-05, which crosses a year boundary.                              *)

NowDays == 450
FirstNowDay == DaysFromCivil(2023, 12, 20)
NowHours == {0, 12, 23}
TzOffsets == {-5, 0, 5}

Clocks == [day : FirstNowDay .. (FirstNowDay + NowDays - 1), hour : NowHours]

----------------------------------------------------------------------------
(* category-trend/route.ts (budget-overview) and the category-transactions *)
(* route: getDateRanges.                                                    *)

daysFromMonday_neg(dayOfWeek) == dayOfWeek - 1
daysFromMonday(dayOfWeek) == IF dayOfWeek = 0 THEN 6 ELSE dayOfWeek - 1

getDateRanges ==
    LET monthStart == NewDate(getFullYear(now), getMonth(now), 1)
        monthEnd   == NewDate(getFullYear(now), getMonth(now) + 1, 0)
        dayOfWeek  == getDay(now)
        weekStart  == setHours(setDate(now, getDate(now) - daysFromMonday(dayOfWeek)), 0)
        weekEnd    == setHours(setDate(weekStart, getDate(weekStart) + 6), 23)
    IN  [monthStart |-> monthStart, monthEnd |-> monthEnd,
         weekStart |-> weekStart, weekEnd |-> weekEnd]

CallGetDateRanges ==
    /\ resp' = [op |-> "getDateRanges", ranges |-> getDateRanges]
    /\ UNCHANGED <<clockVars, storeVars, procVars>>

InitDates ==
    /\ now \in Clocks
    /\ tz \in TzOffsets
    /\ accounts = << >>
    /\ transactions = << >>
    /\ budgets = << >>
    /\ plaidItems = << >>
    /\ NoProcesses
    /\ resp = NoResp

NextDates == CallGetDateRanges

SpecDates == InitDates /\ [][NextDates]_vars

\* C10: for every 'now', the current week computed by getDateRanges starts
\* on a Monday on or before now's day, ends on the Sunday 6 days later (7
\* calendar days), and starts 6 days before now when now is a Sunday.
C10_WeekIsMondayToSunday ==
    resp.op = "getDateRanges" =>
        LET r == resp.ranges IN
        /\ getDay(r.weekStart) = 1
        /\ r.weekStart.day <= now.day
        /\ now.day - r.weekStart.day <= 6
        /\ r.weekEnd.day = r.weekStart.day + 6
        /\ getDay(r.weekEnd) = 0
        /\ r.weekEnd.day - r.weekStart.day + 1 = 7
        /\ (getDay(now) = 0 => r.weekStart.day = now.day - 6)

\* A Sunday 'now' in January whose week started in the previous year.
C10_Witness ==
    /\ resp.op = "getDateRanges"
    /\ getDay(now) = 0
    /\ getFullYear(resp.ranges.weekStart) < getFullYear(now)
    /\ resp.ranges.weekStart.day = now.day - 6

----------------------------------------------------------------------------
(* api/spend-summary/route.ts: getDateRange and GET; the client's          *)
(* computeCategoryRollups (dashboard/spend-summary.tsx).                    *)

getDateRange(period) ==
    IF period = "last_30_days"
    THEN LET endDate == NewDate(getFullYear(now), getMonth(now), getDate(now) + 1)
         IN  [startDate |-> setDate(endDate, getDate(endDate) - 30),
              endDate   |-> endDate]
    ELSE [startDate |-> NewDate(getFullYear(now), getMonth(now), 1),
          endDate   |-> NewDate(getFullYear(now), getMonth(now) + 1, 1)]

\* The rows of the query: the caller's transactions joined to their account,
\* date >= start and date < end, ordered by date descending.
SpendSummaryQuery(userId, startDateStr, endDateStr) ==
    OrderByDateDesc(SelectSeq(transactions, LAMBDA t :
        /\ t.user_id = userId
        /\ HasAccount(t)
        /\ t.date >= startDateStr
        /\ t.date < endDateStr))

\* The sharedOnly filter of route.ts:146-150 and sharedLogic.ts:118-121.
IsSharedRow_and(tx) == AccountOf(tx).is_shared_source = TRUE /\ tx.is_shared = TRUE
IsSharedRow(tx) == AccountOf(tx).is_shared_source = TRUE \/ tx.is_shared = TRUE

SummaryTransaction(tx) ==
    [id |-> tx.id, date |-> tx.date, amount |-> Round2(tx.amount),
     normalizedCategory |-> tx.normalized_category, isShared |-> tx.is_shared]

\* One entry of accountMap after the loop of route.ts:176-204; totalAmount is
\* still the unrounded sum (mills).
AccountEntry(filtered, accountId) ==
    LET txs == SelectSeq(filtered, LAMBDA t : t.account_id = accountId)
    IN  [accountId        |-> accountId,
         isSharedSource   |-> AccountOf(txs[1]).is_shared_source,
         totalAmount      |-> SumSeq(MapSeq(txs, LAMBDA t : t.amount)),
         transactionCount |-> Len(txs),
         transactions     |-> MapSeq(txs, SummaryTransaction)]

RoundedAccount(acc) == [acc EXCEPT !.totalAmount = Round2(acc.totalAmount)]

ValidPeriod(periodParam) ==
    IF periodParam \in {"current_month", "last_30_days"}
    THEN periodParam ELSE "current_month"

SpendSummaryGET(caller, periodParam, sharedOnlyParam) ==
    IF NoCurrentUser(caller)
    THEN Unauthorized("spend-summary")
    ELSE
    LET period       == ValidPeriod(periodParam)
        sharedOnly   == (sharedOnlyParam = "true")
    IN
    Bind(getDateRange(period), LAMBDA range :
    Bind(formatDateForQuery(range.startDate), LAMBDA startDateStr :
    Bind(formatDateForQuery(range.endDate), LAMBDA endDateStr :
    Bind(SpendSummaryQuery(caller, startDateStr, endDateStr), LAMBDA rows :
    Bind(IF sharedOnly THEN SelectSeq(rows, IsSharedRow) ELSE rows, LAMBDA filtered :
    Bind(MapSeq(FirstOccurrences(MapSeq(filtered, LAMBDA t : t.account_id)),
                LAMBDA a : AccountEntry(filtered, a)), LAMBDA entries :
    LET totalAmount  == SumSeq(MapSeq(entries, LAMBDA e : e.totalAmount))
        base         == [op |-> "spend-summary", status |-> 200, error |-> Null,
                         storeCalls |-> 1,
                         caller |-> caller, period |-> period,
                         sharedOnly |-> sharedOnly,
                         startDateStr |-> startDateStr, endDateStr |-> endDateStr]
    IN  IF rows = << >>
        THEN base @@ [totalAmount |-> 0, accounts |-> << >>, categories |-> {}]
        ELSE base @@
             [totalAmount |-> Round2(totalAmount),
              accounts    |-> MapSeq(entries, RoundedAccount),
              categories  |-> {t.normalized_category : t \in Range(filtered)}
                                  \ {Null, ""}]))))))

\* Array.prototype.sort((a, b) => b.totalAmount - a.totalAmount): stable,
\* larger totals first, equal totals in their previous order.
RECURSIVE SortByTotalDesc(_)
SortByTotalDesc(rollups) ==
    IF rollups = << >> THEN << >>
    ELSE LET m == CHOOSE v \in {r.totalAmount : r \in Range(rollups)} :
                      \A r \in Range(rollups) : r.totalAmount <= v
         IN  SelectSeq(rollups, LAMBDA r : r.totalAmount = m)
             \o SortByTotalDesc(SelectSeq(rollups, LAMBDA r : r.totalAmount # m))

RECURSIVE Flatten(_)
Flatten(ss) == IF ss = << >> THEN << >> ELSE Head(ss) \o Flatten(Tail(ss))

\* The amounts of the response are in cents (10 mills each); the category
\* sum is rounded once more (spend-summary.tsx:720).
computeCategoryRollups(accs) ==
    LET txs        == Flatten(MapSeq(accs, LAMBDA a : a.transactions))
        CategoryOf(tx) == OrElse(tx.normalizedCategory, "Uncategorized")
        categories == FirstOccurrences(MapSeq(txs, CategoryOf))
        Rollup(c)  ==
            LET mine == SelectSeq(txs, LAMBDA t : CategoryOf(t) = c)
            IN  [category         |-> c,
                 totalAmount      |->
                     Round2(10 * SumSeq(MapSeq(mine, LAMBDA t : t.amount))),
                 transactionCount |-> Len(mine)]
    IN  SortByTotalDesc(MapSeq(categories, Rollup))

----------------------------------------------------------------------------
(* lib/sharedLogic.ts: getCurrentMonthRange and                             *)
(* getSharedTransactionsForCurrentMonth; its route GET                      *)
(* (api/transactions/shared).                                               *)

getCurrentMonthRange ==
    [startDate |-> formatDateForQuery(NewDate(getFullYear(now), getMonth(now), 1)),
     endDate   |-> formatDateForQuery(NewDate(getFullYear(now), getMonth(now) + 1, 1))]

SharedTransaction(tx) ==
    [id |-> tx.id, date |-> tx.date, amount |-> tx.amount,
     normalized_category |-> tx.normalized_category, is_shared |-> tx.is_shared]

getSharedTransactionsForCurrentMonth(userId, normalizedCategory) ==
    LET range == getCurrentMonthRange
        data  == SelectSeq(transactions, LAMBDA t :
                    /\ t.user_id = userId
                    /\ HasAccount(t)
                    /\ t.date >= range.startDate
                    /\ t.date < range.endDate
                    /\ (OrElse(normalizedCategory, Null) # Null
                            => t.normalized_category = normalizedCategory))
    IN  MapSeq(SelectSeq(data, IsSharedRow), SharedTransaction)

SharedTransactionsGET(caller, normalizedCategoryParam, periodParam) ==
    IF NoCurrentUser(caller)
    THEN Unauthorized("shared-transactions")
    ELSE IF OrElse(periodParam, "current_month") # "current_month"
    THEN ErrorResponse("shared-transactions", caller, 400,
                       "Only period=current_month is supported", 0)
    ELSE [op |-> "shared-transactions", status |-> 200, error |-> Null,
          storeCalls |-> 1,
          caller |-> caller, category |-> OrElse(normalizedCategoryParam, Null),
          transactions |->
              getSharedTransactionsForCurrentMonth(
                  caller, OrElse(normalizedCategoryParam, Null))]

----------------------------------------------------------------------------
(* The read requests as actions.                                            *)

Callers == Users \cup {NoUser}
PeriodParams == {"current_month", "last_30_days", Null}

GetSpendSummary ==
    \E caller \in Callers, periodParam \in PeriodParams,
       sharedOnlyParam \in {"true", Null} :
        /\ resp' = SpendSummaryGET(caller, periodParam, sharedOnlyParam)
        /\ UNCHANGED <<clockVars, storeVars, procVars>>

GetSharedTransactions ==
    \E caller \in Callers, category \in {Null, "GROCERY", "TRAVEL"},
       periodParam \in {Null, "last_30_days"} :
        /\ resp' = SharedTransactionsGET(caller, category, periodParam)
        /\ UNCHANGED <<clockVars, storeVars, procVars>>

----------------------------------------------------------------------------
(* Spend summary over bounded transaction sets: amounts of any precision.  *)

MaxTx == 3

SummaryNow == [day |-> DaysFromCivil(2024, 3, 15), hour |-> 12]

\* 0.005 and 1.00 currency units.
SummaryAmounts == {5, 1000}

\* Rows get their id from their position, as a serial key would.
WithIds(rows) == [i \in 1 .. Len(rows) |-> rows[i] @@ [id |-> "t" \o ToString(i)]]

TxDraft(user, account, amount, category, shared, date) ==
    [user_id |-> user, account_id |-> account, amount |-> amount,
     normalized_category |-> category, is_shared |-> shared, date |-> date,
     provider_transaction_id |-> Null]

AccountRow(id, user, shared) ==
    [id |-> id, user_id |-> user, provider |-> Null, provider_account_id |-> id,
     name |-> id, is_shared_source |-> shared]

SummaryTxs ==
    {TxDraft("u1", a, m, c, FALSE, SummaryNow.day) :
        a \in {"a1", "a2"}, m \in SummaryAmounts, c \in {Null, "GROCERY"}}

SeqsUpTo(S, n) == UNION {[1 .. k -> S] : k \in 0 .. n}

InitSummary ==
    /\ now = SummaryNow
    /\ tz = 0
    /\ accounts = <<AccountRow("a1", "u1", TRUE), AccountRow("a2", "u1", FALSE)>>
    /\ \E rows \in SeqsUpTo(SummaryTxs, MaxTx) : transactions = WithIds(rows)
    /\ budgets = << >>
    /\ plaidItems = << >>
    /\ NoProcesses
    /\ resp = NoResp

\* The store does not change here, so every response is that of a first
\* request: one request per behaviour reaches them all.
FirstRequest == resp = NoResp

NextSummary == FirstRequest /\ GetSpendSummary

SpecSummary == InitSummary /\ [][NextSummary]_vars

OkSummary == resp.op = "spend-summary" /\ resp.status = 200

\* C1: in every spend-summary response the sum of accounts[i].totalAmount
\* equals the response's totalAmount.
C1_AccountTotalsReconcile ==
    OkSummary =>
        SumSeq(MapSeq(resp.accounts, LAMBDA a : a.totalAmount)) = resp.totalAmount

\* C2: in every spend-summary response the sum of totalAmount over the
\* category rollups computed from the response's accounts equals the
\* response's totalAmount.
C2_CategoryTotalsReconcile ==
    OkSummary =>
        SumSeq(MapSeq(computeCategoryRollups(resp.accounts),
                      LAMBDA r : r.totalAmount)) = resp.totalAmount

----------------------------------------------------------------------------
(* The shared-only filter over bounded stores: two accounts of u1 (a1 may  *)
(* be a shared source, a2 is personal), one shared-source account of u2,   *)
(* transactions dated the day before the current month starts (inside the *)
(* last 30 days) or tomorrow (inside the month, the exclusive end of the   *)
(* last 30 days).                                                          *)

MaxSharedTx == 2

SharedDates == {NewDate(2024, 2, 1).day - 1, SummaryNow.day + 1}

\* 25.00 of GROCERY or 40.00 of TRAVEL.
SharedKinds == {<<25000, "GROCERY">>, <<40000, "TRAVEL">>}

OwnerOfAccount == [a1 |-> "u1", a2 |-> "u1", a3 |-> "u2"]

SharedTxs ==
    {TxDraft(OwnerOfAccount[a], a, k[1], k[2], sh, d) :
        a \in {"a1", "a2", "a3"}, k \in SharedKinds, sh \in BOOLEAN,
        d \in SharedDates}

InitSharedBounded ==
    /\ \E a1Shared \in BOOLEAN :
         accounts = <<AccountRow("a1", "u1", a1Shared),
                      AccountRow("a2", "u1", FALSE),
                      AccountRow("a3", "u2", TRUE)>>
    /\ \E rows \in SeqsUpTo(SharedTxs, MaxSharedTx) : transactions = WithIds(rows)

\* The scenario of the specification: a shared-source account with 3
\* transactions totalling 120.00, a personal account with one shared 40.00
\* and one unshared 25.00.
ScenarioTransactions ==
    WithIds(<<TxDraft("u1", "a1", 50000, "GROCERY", FALSE, SummaryNow.day),
              TxDraft("u1", "a1", 30000, "TRAVEL", FALSE, SummaryNow.day - 1),
              TxDraft("u1", "a1", 40000, Null, FALSE, SummaryNow.day - 2),
              TxDraft("u1", "a2", 40000, "GROCERY", TRUE, SummaryNow.day),
              TxDraft("u1", "a2", 25000, "GROCERY", FALSE, SummaryNow.day)>>)

InitSharedScenario ==
    /\ accounts = <<AccountRow("a1", "u1", TRUE), AccountRow("a2", "u1", FALSE)>>
    /\ transactions = ScenarioTransactions

InitShared ==
    /\ now = SummaryNow
    /\ tz = 0
    /\ (InitSharedBounded \/ InitSharedScenario)
    /\ budgets = << >>
    /\ plaidItems = << >>
    /\ NoProcesses
    /\ resp = NoResp

NextShared ==
    \/ FirstRequest /\ GetSpendSummary
    \/ FirstRequest /\ GetSharedTransactions

SpecShared == InitShared /\ [][NextShared]_vars

RECURSIVE SumAmounts(_)
SumAmounts(rows) ==
    IF rows = {} THEN 0
    ELSE LET r == CHOOSE x \in rows : TRUE
         IN  r.amount + SumAmounts(rows \ {r})

\* The stored transactions of userId dated in [startDay, endDay) that are
\* shared: the owning account is a shared source or the row is marked shared.
SharedInRange(userId, startDay, endDay) ==
    {t \in Range(transactions) :
        /\ t.user_id = userId
        /\ startDay <= t.date /\ t.date < endDay
        /\ \E a \in Range(accounts) :
              a.id = t.account_id /\ (a.is_shared_source \/ t.is_shared)}

ResponseTxIds(accs) == {t.id : t \in Range(Flatten(MapSeq(accs, LAMBDA a : a.transactions)))}

\* C3: with sharedOnly=true the transactions contributing to the result are
\* exactly those of the caller in the date range whose account is a shared
\* source or that are marked shared; counts and totalAmount are theirs; in
\* the scenario the total is 160.00.
C3_SharedOnlySelectsSharedRows ==
    /\ (OkSummary /\ resp.sharedOnly) =>
          LET want == SharedInRange(resp.caller, resp.startDateStr, resp.endDateStr)
          IN  /\ ResponseTxIds(resp.accounts) = {t.id : t \in want}
              /\ SumSeq(MapSeq(resp.accounts, LAMBDA a : a.transactionCount))
                     = Cardinality(want)
              /\ \A i \in 1 .. Len(resp.accounts) :
                    LET a    == resp.accounts[i]
                        mine == {t \in want : t.account_id = a.accountId}
                    IN  /\ a.transactionCount = Cardinality(mine)
                        /\ a.totalAmount = Round2(SumAmounts(mine))
              /\ resp.totalAmount = Round2(SumAmounts(want))
              /\ (transactions = ScenarioTransactions /\ resp.caller = "u1"
                    => resp.totalAmount = 16000)
    /\ (resp.op = "shared-transactions" /\ resp.status = 200) =>
          LET month == getCurrentMonthRange
              want  == {t \in SharedInRange(resp.caller, month.startDate, month.endDate) :
                           resp.category # Null
                               => t.normalized_category = resp.category}
          IN  {t.id : t \in Range(resp.transactions)} = {t.id : t \in want}

\* The scenario answered with sharedOnly=true: 4 of the 5 rows, 160.00.
C3_Witness ==
    /\ OkSummary /\ resp.sharedOnly /\ resp.caller = "u1"
    /\ transactions = ScenarioTransactions
    /\ ResponseTxIds(resp.accounts) = {"t1", "t2", "t3", "t4"}
    /\ resp.totalAmount = 16000

----------------------------------------------------------------------------
(* lib/mockImport.ts (runMockImport, syncSharedSourceTransactions, behind  *)
(* POST /api/mock-import) and lib/plaidImport.ts (importPlaidDataForUser,  *)
(* behind POST /api/plaid/sync). Every store call is one step of a run, so *)
(* that two runs interleave between a read and the insert that follows it. *)

\* .single(): the row when the query matches exactly one row, else no data.
Single(rows) == IF Len(rows) = 1 THEN rows ELSE << >>

\* if (existingAccount) / if (existingTx)
Found_never(data) == FALSE
Found(data) == data # << >>

\* Transactions generated per mock account (the source generates 15 and 20).
MockTxCount == 1

MOCK_ACCOUNTS ==
    << [provider_account_id |-> "mock-shared-card", name |-> "Shared Credit Card",
        is_shared_source |-> TRUE],
       [provider_account_id |-> "mock-personal-card", name |-> "Personal Checking",
        is_shared_source |-> FALSE] >>

\* seededRandom(id + '-shared') < 0.3 is a fixed function of the id: here
\* the even-numbered transactions of an account.
MockSeedShared(i) == i % 2 = 0

generateMockTransactions(providerAccountId, accountIndex) ==
    [n \in 1 .. MockTxCount |->
        [provider_transaction_id |->
             "mock-" \o ToString(accountIndex) \o "-" \o ToString(n - 1),
         provider_account_id |-> providerAccountId,
         normalized_category |-> "GROCERY",
         amount   |-> 10000 + 2500 * (n - 1),
         daysAgo  |-> n - 1,
         seedShared |-> MockSeedShared(n - 1)]]

getDateDaysAgo(daysAgo) == formatDateForQuery(setDate(now, getDate(now) - daysAgo))

\* What the provider answers: one account, and up to MaxPlaidTx transactions
\* with distinct ids. A transaction id belongs to one account for good; the
\* orphan's account is one the accounts call did not list.
MaxPlaidTx == 2
PlaidTxIds == {"ptx-" \o ToString(n) : n \in 1 .. MaxPlaidTx} \cup {"ptx-orphan"}
PlaidAccounts == << [provider_account_id |-> "plaid-acc-1", name |-> "Plaid Checking"] >>
PlaidAccountOf(id) == IF id = "ptx-orphan" THEN "plaid-acc-unlisted" ELSE "plaid-acc-1"
PlaidTx(id) ==
    [provider_transaction_id |-> id, provider_account_id |-> PlaidAccountOf(id),
     normalized_category |-> "OTHER", amount |-> -12340, date |-> now.day - 1]
PlaidFeeds ==
    {f \in SeqsUpTo({PlaidTx(id) : id \in PlaidTxIds}, MaxPlaidTx) :
        \A a, b \in 1 .. Len(f) :
            a # b => f[a].provider_transaction_id # f[b].provider_transaction_id}

Abs(x) == IF x < 0 THEN -x ELSE x

\* accountIds / accountIdMap: provider account id -> store id, in insertion order.
MapGet(map, key) == SelectSeq(map, LAMBDA e : e.key = key)
MapSet(map, key, value) ==
    IF MapGet(map, key) = << >>
    THEN Append(map, [key |-> key, value |-> value])
    ELSE [i \in 1 .. Len(map) |->
            IF map[i].key = key THEN [key |-> key, value |-> value] ELSE map[i]]

\* The store gives every inserted row a fresh id.
NextId(prefix, table) == prefix \o ToString(Len(table) + 1)

MockFeedTxs ==
    Flatten([a \in 1 .. Len(MOCK_ACCOUNTS) |->
        generateMockTransactions(MOCK_ACCOUNTS[a].provider_account_id, a - 1)])

\* Where a run goes once the account at index k has been handled.
AfterAccount(run) ==
    IF run.k < Len(run.feedAccounts)
    THEN [run EXCEPT !.k = @ + 1, !.pc = "acct_check", !.existing = << >>]
    ELSE [run EXCEPT !.k = @ + 1, !.existing = << >>,
                     !.pc = IF run.kind = "mock"
                            THEN (IF run.feedTxs = << >> THEN "sync_read" ELSE "tx_check")
                            ELSE "tx_fetch"]

\* Where a run goes once the transaction at index j has been handled.
AfterTx(run) ==
    IF run.j < Len(run.feedTxs)
    THEN [run EXCEPT !.j = @ + 1, !.pc = "tx_check", !.existing = << >>]
    ELSE [run EXCEPT !.j = @ + 1, !.existing = << >>,
                     !.pc = IF run.kind = "mock" THEN "sync_read" ELSE "done"]

ImportResult(run) ==
    [op |-> IF run.kind = "mock" THEN "mock-import" ELSE "plaid-sync",
     status |-> 200, error |-> Null, caller |-> run.user,
     accountsCreated |-> run.accountsCreated,
     accountsReused |-> run.accountsReused,
     accountsUpdated |-> run.accountsUpdated,
     transactionsCreated |-> run.transactionsCreated,
     transactionsSkipped |-> run.transactionsSkipped,
     transactionsSynced |-> run.transactionsSynced,
     errors |-> run.errors]

\* The response is returned in the step that ends the run.
Continue(r, run) ==
    /\ runs' = [runs EXCEPT ![r] = run]
    /\ resp' = IF run.pc = "done" THEN ImportResult(run) ELSE resp

\* The provider transaction ids stored for the user. Every run records this
\* set as storedAtStart when it begins; the code never reads that field, the
\* properties of the import compare the run's result against it.
StoredIds(userId) ==
    {t.provider_transaction_id :
        t \in {x \in Range(transactions) : x.user_id = userId}}

\* POST /api/mock-import: the auth check, then runMockImport begins.
StartMockImport(r) ==
    /\ runs[r].pc = "idle"
    /\ \E caller \in Callers :
         IF NoCurrentUser(caller)
         THEN /\ resp' = Unauthorized("mock-import")
              /\ UNCHANGED runs
         ELSE /\ runs' = [runs EXCEPT ![r] =
                    [IdleRun EXCEPT !.pc = "acct_check", !.kind = "mock",
                                    !.user = caller,
                                    !.storedAtStart = StoredIds(caller),
                                    !.feedAccounts = MOCK_ACCOUNTS,
                                    !.feedTxs = MockFeedTxs]]
              /\ UNCHANGED resp
    /\ UNCHANGED <<clockVars, storeVars, upserts, view, budgetView>>

\* POST /api/plaid/sync: the auth check, then importPlaidDataForUser reads
\* the user's plaid_items and, for the item, the provider's accounts.
StartPlaidSync(r) ==
    /\ runs[r].pc = "idle"
    /\ \E caller \in Callers :
         IF NoCurrentUser(caller)
         THEN /\ resp' = Unauthorized("plaid-sync")
              /\ UNCHANGED runs
         ELSE LET items == SelectSeq(plaidItems, LAMBDA it : it.user_id = caller)
                  run   == [IdleRun EXCEPT !.kind = "plaid", !.user = caller,
                                           !.storedAtStart = StoredIds(caller)]
              IN  IF items = << >>
                  THEN Continue(r, [run EXCEPT !.pc = "done", !.errors = 1])
                  ELSE Continue(r, [run EXCEPT !.pc = "acct_check",
                                               !.feedAccounts = PlaidAccounts])
    /\ UNCHANGED <<clockVars, storeVars, upserts, view, budgetView>>

\* The read that looks for the account (mockImport.ts:204-209,
\* plaidImport.ts:170-176); a found mock account is reused at once.
AccountCheck(r) ==
    LET run      == runs[r]
        acct     == run.feedAccounts[run.k]
        existing == Single(SelectSeq(accounts, LAMBDA a :
                        /\ a.user_id = run.user
                        /\ (run.kind = "plaid" => a.provider = "plaid")
                        /\ a.provider_account_id = acct.provider_account_id))
    IN  /\ run.pc = "acct_check"
        /\ IF Found(existing)
           THEN IF run.kind = "mock"
                THEN Continue(r, AfterAccount(
                        [run EXCEPT !.accountIds =
                                        MapSet(@, acct.provider_account_id, existing[1].id),
                                    !.accountsReused = @ + 1]))
                ELSE Continue(r, [run EXCEPT !.pc = "acct_update", !.existing = existing])
           ELSE Continue(r, [run EXCEPT !.pc = "acct_insert"])
        /\ UNCHANGED <<clockVars, storeVars, upserts, view, budgetView>>

AccountInsert(r) ==
    LET run  == runs[r]
        acct == run.feedAccounts[run.k]
        row  == [id |-> NextId("acc-", accounts), user_id |-> run.user,
                 provider |-> IF run.kind = "plaid" THEN "plaid" ELSE Null,
                 provider_account_id |-> acct.provider_account_id,
                 name |-> acct.name,
                 is_shared_source |->
                     IF run.kind = "mock" THEN acct.is_shared_source ELSE FALSE]
    IN  /\ run.pc = "acct_insert"
        /\ accounts' = Append(accounts, row)
        /\ Continue(r, AfterAccount(
              [run EXCEPT !.accountIds = MapSet(@, acct.provider_account_id, row.id),
                          !.accountsCreated = @ + 1]))
        /\ UNCHANGED <<clockVars, transactions, budgets, plaidItems, upserts, view, budgetView>>

\* plaidImport.ts:180-188: name, type, subtype and provider_raw are written,
\* filtered by the id read before.
UpdatedAccount_reset(account, acct) ==
    [account EXCEPT !.name = acct.name, !.is_shared_source = FALSE]
UpdatedAccount(account, acct) == [account EXCEPT !.name = acct.name]

AccountUpdate(r) ==
    LET run  == runs[r]
        acct == run.feedAccounts[run.k]
        id   == run.existing[1].id
    IN  /\ run.pc = "acct_update"
        /\ accounts' = [i \in 1 .. Len(accounts) |->
                IF accounts[i].id = id
                THEN UpdatedAccount(accounts[i], acct)
                ELSE accounts[i]]
        /\ Continue(r, AfterAccount(
              [run EXCEPT !.accountIds = MapSet(@, acct.provider_account_id, id),
                          !.accountsUpdated = @ + 1]))
        /\ UNCHANGED <<clockVars, transactions, budgets, plaidItems, upserts, view, budgetView>>

\* plaidClient.transactionsGet: the provider's answer.
TransactionsFetch(r) ==
    LET run == runs[r]
    IN  /\ run.pc = "tx_fetch"
        /\ \E feed \in PlaidFeeds :
             Continue(r, IF feed = << >>
                         THEN [run EXCEPT !.pc = "done"]
                         ELSE [run EXCEPT !.pc = "tx_check", !.feedTxs = feed])
        /\ UNCHANGED <<clockVars, storeVars, upserts, view, budgetView>>

\* The read that looks for the transaction (mockImport.ts:245-255,
\* plaidImport.ts:239-256); a found transaction is skipped at once.
TransactionCheck(r) ==
    LET run      == runs[r]
        tx       == run.feedTxs[run.j]
        existing == Single(SelectSeq(transactions, LAMBDA t :
                        /\ t.user_id = run.user
                        /\ t.provider_transaction_id = tx.provider_transaction_id))
    IN  /\ run.pc = "tx_check"
        /\ IF run.kind = "plaid" /\ MapGet(run.accountIds, tx.provider_account_id) = << >>
           THEN Continue(r, AfterTx([run EXCEPT !.errors = @ + 1]))
           ELSE IF Found(existing)
           THEN Continue(r, AfterTx([run EXCEPT !.transactionsSkipped = @ + 1]))
           ELSE Continue(r, [run EXCEPT !.pc = "tx_insert"])
        /\ UNCHANGED <<clockVars, storeVars, upserts, view, budgetView>>

TransactionInsert(r) ==
    LET run  == runs[r]
        tx   == run.feedTxs[run.j]
        acct == CHOOSE a \in Range(run.feedAccounts) :
                    a.provider_account_id = tx.provider_account_id
        row  == [id |-> NextId("t", transactions), user_id |-> run.user,
                 account_id |-> MapGet(run.accountIds, tx.provider_account_id)[1].value,
                 provider_transaction_id |-> tx.provider_transaction_id,
                 date |-> IF run.kind = "mock" THEN getDateDaysAgo(tx.daysAgo)
                          ELSE tx.date,
                 amount |-> IF run.kind = "mock" THEN tx.amount ELSE Abs(tx.amount),
                 normalized_category |-> tx.normalized_category,
                 is_shared |-> IF run.kind = "mock"
                               THEN acct.is_shared_source \/ tx.seedShared
                               ELSE FALSE]
    IN  /\ run.pc = "tx_insert"
        /\ transactions' = Append(transactions, row)
        /\ Continue(r, AfterTx([run EXCEPT !.transactionsCreated = @ + 1]))
        /\ UNCHANGED <<clockVars, accounts, budgets, plaidItems, upserts, view, budgetView>>

\* syncSharedSourceTransactions, first call: the ids of the user's accounts
\* with is_shared_source = true; none ends the request.
SyncRead(r) ==
    LET run == runs[r]
        ids == {a.id : a \in {x \in Range(accounts) :
                    x.user_id = run.user /\ x.is_shared_source = TRUE}}
    IN  /\ run.pc = "sync_read"
        /\ Continue(r, IF ids = {} THEN [run EXCEPT !.pc = "done"]
                       ELSE [run EXCEPT !.pc = "sync_update", !.sharedAccountIds = ids])
        /\ UNCHANGED <<clockVars, storeVars, upserts, view, budgetView>>

\* syncSharedSourceTransactions, second call: one bulk update.
SyncUpdate(r) ==
    LET run == runs[r]
        Hit(t) == /\ t.user_id = run.user
                  /\ t.account_id \in run.sharedAccountIds
                  /\ t.is_shared = FALSE
    IN  /\ run.pc = "sync_update"
        /\ transactions' = [i \in 1 .. Len(transactions) |->
                IF Hit(transactions[i])
                THEN [transactions[i] EXCEPT !.is_shared = TRUE]
                ELSE transactions[i]]
        /\ Continue(r, [run EXCEPT !.pc = "done",
                !.transactionsSynced = Len(SelectSeq(transactions, Hit))])
        /\ UNCHANGED <<clockVars, accounts, budgets, plaidItems, upserts, view, budgetView>>

ImportStep(r) ==
    \/ AccountCheck(r)
    \/ AccountInsert(r)
    \/ AccountUpdate(r)
    \/ TransactionsFetch(r)
    \/ TransactionCheck(r)
    \/ TransactionInsert(r)
    \/ SyncRead(r)
    \/ SyncUpdate(r)

InitImport ==
    /\ now = SummaryNow
    /\ tz = 0
    /\ accounts = << >>
    /\ transactions = << >>
    /\ budgets = << >>
    /\ plaidItems = <<[user_id |-> "u1", item_id |-> "item-1"]>>
    /\ NoProcesses
    /\ resp = NoResp

\* Requests arrive at any time: two import runs may be in progress at once.
NextImport ==
    \E r \in RunIds : StartMockImport(r) \/ StartPlaidSync(r) \/ ImportStep(r)

SpecImport == InitImport /\ [][NextImport]_vars

\* Requests arrive one after the other: a run begins when no run is in
\* progress.
NoRunInProgress == \A r \in RunIds : runs[r].pc \in {"idle", "done"}

NextImportSeq ==
    \E r \in RunIds :
        \/ NoRunInProgress /\ StartMockImport(r)
        \/ NoRunInProgress /\ StartPlaidSync(r)
        \/ ImportStep(r)

SpecImportSeq == InitImport /\ [][NextImportSeq]_vars

StoredCopies(userId, providerTransactionId) ==
    Len(SelectSeq(transactions, LAMBDA t :
        t.user_id = userId /\ t.provider_transaction_id = providerTransactionId))

\* C4: in every reachable state, also with two import runs of one user
\* interleaved at their store reads and inserts, no two stored transactions
\* share (userId, providerTransactionId).
C4_UniqueProviderTransactionId ==
    \A t \in Range(transactions) :
        StoredCopies(t.user_id, t.provider_transaction_id) = 1

FeedIds(run) == {tx.provider_transaction_id : tx \in Range(run.feedTxs)}

\* The ids of the feed whose account the run knows.
ImportableIds(run) ==
    {tx.provider_transaction_id :
        tx \in {x \in Range(run.feedTxs) :
                  run.kind = "plaid" => x.provider_account_id = "plaid-acc-1"}}

FinishedRun(r) == runs[r].pc = "done" /\ runs[r].kind # Null

\* C5: a run that began when no other run was in progress and after the
\* earlier one completed stores nothing new for the ids already stored:
\* every such id of its feed is stored exactly once when it is done,
\* transactionsSkipped counts exactly those ids, and transactionsCreated
\* counts exactly the ids that were not stored before.
C5_SecondImportOnlySkips ==
    \A r \in RunIds :
        FinishedRun(r) =>
            LET run     == runs[r]
                already == run.storedAtStart \cap ImportableIds(run)
            IN  /\ \A id \in already : StoredCopies(run.user, id) = 1
                /\ run.transactionsSkipped = Cardinality(already)
                /\ run.transactionsCreated =
                       Cardinality(ImportableIds(run) \ run.storedAtStart)

\* A second run of the same user is done: each
\* found every id of its feed stored, skipped them all and created nothing.
C5_Witness ==
    \E r \in RunIds :
        /\ FinishedRun(r)
        /\ runs[r].feedTxs # << >>
        /\ FeedIds(runs[r]) \subseteq runs[r].storedAtStart
        /\ runs[r].transactionsSkipped = Len(runs[r].feedTxs)
        /\ runs[r].transactionsCreated = 0

----------------------------------------------------------------------------
(* JavaScript values as they arrive in a request body or as the argument   *)
(* of a server action. Numbers are amounts in thousandths.                 *)

Num(n)  == [tag |-> "number", n |-> n]
NaN     == [tag |-> "NaN"]
Str(str) == [tag |-> "string", s |-> str]
Bool(b) == [tag |-> "boolean", b |-> b]
JsNull  == [tag |-> "null"]
Absent  == [tag |-> "absent"]          \* undefined, or a key not in the body

typeof(v) ==
    CASE v.tag = "NaN"    -> "number"
      [] v.tag = "null"   -> "object"
      [] v.tag = "absent" -> "undefined"
      [] OTHER            -> v.tag

\* !v
Falsy(v) ==
    \/ v.tag \in {"NaN", "null", "absent"}
    \/ v = Str("")
    \/ v = Num(0)
    \/ v = Bool(FALSE)

\* 'key' in body
In(v) == v.tag # "absent"

\* v <= 0 for a value whose typeof is number: false for NaN.
LessOrEqualZero(v) == v.tag = "number" /\ v.n <= 0

\* A null in a numeric column.
NullNum == -1

\* JSON.stringify of the number sent to the store: NaN becomes null.
JsonNumber(v) == IF v.tag = "number" THEN v.n ELSE NullNum

\* .eq('user_id', user.id) on an update
OwnedBy_anyone(row, userId) == TRUE
OwnedBy(row, userId) == row.user_id = userId

UpdateWhere(table, Hit(_), Change(_)) ==
    [i \in 1 .. Len(table) |-> IF Hit(table[i]) THEN Change(table[i]) ELSE table[i]]

----------------------------------------------------------------------------
(* Server actions on budgets (app/dashboard/actions.ts): upsertBudget and  *)
(* deleteBudget. upsertBudget makes two store calls, the existence check   *)
(* and the update or insert; other calls can come between them.            *)

BudgetRow(id, user, category, amount) ==
    [id |-> id, user_id |-> user, name |-> category,
     normalized_category |-> category, amount |-> amount,
     period_type |-> "monthly", max_visits |-> NullNum]

\* How many times one caller slot may call upsertBudget.
MaxCalls == 1

CategoryArgs == {Str("GROCERY"), Str(""), Absent}
AmountArgs == {Num(300000), Num(450000), Num(0), Num(-5000), NaN, Str("300")}

UpsertBudgetCall(c) ==
    /\ upserts[c].pc = "idle"
    /\ upserts[c].n < MaxCalls
    /\ \E caller \in Callers, category \in CategoryArgs, amount \in AmountArgs :
         LET args == <<category, amount>>
             fail(message) ==
                 /\ resp' = Thrown("upsertBudget", caller, message, 0)
                                @@ [args |-> args]
                 /\ UNCHANGED upserts
         IN  IF NoCurrentUser(caller)
             THEN fail("Unauthorized")
             ELSE IF Falsy(category) \/ typeof(category) # "string"
             THEN fail("Invalid category")
             ELSE IF typeof(amount) # "number" \/ LessOrEqualZero(amount)
             THEN fail("Invalid amount")
             ELSE /\ upserts' = [upserts EXCEPT ![c] =
                        [pc |-> "check", n |-> upserts[c].n + 1, user |-> caller,
                         args |-> args, existing |-> << >>]]
                  /\ UNCHANGED resp
    /\ UNCHANGED <<clockVars, storeVars, runs, view, budgetView>>

\* dashboard-tabs.tsx:82-87
UpsertCheck(c) ==
    LET call == upserts[c]
        existingBudget == Single(SelectSeq(budgets, LAMBDA b :
                              /\ b.user_id = call.user
                              /\ b.normalized_category = call.args[1].s))
    IN  /\ call.pc = "check"
        /\ upserts' = [upserts EXCEPT ![c] =
                [call EXCEPT !.pc = IF Found(existingBudget) THEN "update" ELSE "insert",
                             !.existing = existingBudget]]
        /\ UNCHANGED <<clockVars, storeVars, runs, view, budgetView, resp>>

\* The write of upsertBudget ends the call. A null amount (NaN in the
\* request) is accepted or refused by the store: the schema is not part of
\* the source.
UpsertWrite(c, op, written) ==
    LET call == upserts[c]
    IN  /\ \E accepted \in (IF call.args[2].tag = "number" THEN {TRUE} ELSE BOOLEAN) :
             IF accepted
             THEN /\ budgets' = written
                  /\ resp' = [op |-> "upsertBudget", status |-> 200, error |-> Null,
                              storeCalls |-> 2, caller |-> call.user,
                              args |-> call.args, success |-> TRUE]
             ELSE /\ UNCHANGED budgets
                  /\ resp' = Thrown("upsertBudget", call.user,
                                    "Failed to " \o op \o " budget", 2)
                                @@ [args |-> call.args]
        /\ upserts' = [upserts EXCEPT ![c] =
                [IdleCall EXCEPT !.n = call.n]]
        /\ UNCHANGED <<clockVars, accounts, transactions, plaidItems, runs, view, budgetView>>

\* dashboard-tabs.tsx:89-98: the update is filtered by the id read before.
UpsertUpdate(c) ==
    /\ upserts[c].pc = "update"
    /\ UpsertWrite(c, "update",
          UpdateWhere(budgets,
              LAMBDA b : b.id = upserts[c].existing[1].id,
              LAMBDA b : [b EXCEPT !.amount = JsonNumber(upserts[c].args[2])]))

\* dashboard-tabs.tsx:99-113
UpsertInsert(c) ==
    /\ upserts[c].pc = "insert"
    /\ UpsertWrite(c, "create",
          Append(budgets,
              BudgetRow("b-" \o ToString(c) \o "-" \o ToString(upserts[c].n),
                        upserts[c].user, upserts[c].args[1].s,
                        JsonNumber(upserts[c].args[2]))))

\* .from('budgets').delete().eq('user_id', user.id)
\*     .eq('normalized_category', category): the rows that stay.
BudgetsAfterDelete_anyUser(userId, category) ==
    SelectSeq(budgets, LAMBDA b : ~(b.normalized_category = category))
BudgetsAfterDelete(userId, category) ==
    SelectSeq(budgets, LAMBDA b :
        ~(b.user_id = userId /\ b.normalized_category = category))

DeleteBudget ==
    /\ \E caller \in Callers, category \in CategoryArgs :
         LET fail(message) ==
                 /\ resp' = Thrown("deleteBudget", caller, message, 0)
                                @@ [args |-> <<category>>]
                 /\ UNCHANGED budgets
         IN  IF NoCurrentUser(caller)
             THEN fail("Unauthorized")
             ELSE IF Falsy(category) \/ typeof(category) # "string"
             THEN fail("Invalid category")
             ELSE /\ budgets' = BudgetsAfterDelete(caller, category.s)
                  /\ resp' = [op |-> "deleteBudget", status |-> 200, error |-> Null,
                              storeCalls |-> 1, caller |-> caller,
                              args |-> <<category>>, success |-> TRUE]
    /\ UNCHANGED <<clockVars, accounts, transactions, plaidItems, procVars>>

BudgetStep(c) == UpsertCheck(c) \/ UpsertUpdate(c) \/ UpsertInsert(c)

InitBudget ==
    /\ now = SummaryNow
    /\ tz = 0
    /\ accounts = << >>
    /\ transactions = << >>
    /\ budgets \in {<< >>, <<BudgetRow("b1", "u1", "GROCERY", 300000)>>}
    /\ plaidItems = << >>
    /\ NoProcesses
    /\ resp = NoResp

NextBudget ==
    \/ \E c \in CallIds : UpsertBudgetCall(c)
    \/ \E c \in CallIds : BudgetStep(c)
    \/ DeleteBudget

SpecBudget == InitBudget /\ [][NextBudget]_vars

\* C6: in every reachable state, whatever the interleaving of upsertBudget
\* and deleteBudget calls, the store holds at most one budget per
\* (userId, normalizedCategory).
C6_OneBudgetPerCategory ==
    \A i, j \in 1 .. Len(budgets) :
        (/\ budgets[i].user_id = budgets[j].user_id
         /\ budgets[i].normalized_category = budgets[j].normalized_category)
            => i = j

\* deleteBudget calls alone, on any store of budgets of two users.
DeleteBudgetRows ==
    <<BudgetRow("b1", "u1", "GROCERY", 300000), BudgetRow("b2", "u1", "TRAVEL", 450000),
      BudgetRow("b3", "u2", "GROCERY", 100000), BudgetRow("b4", "u2", "TRAVEL", 100000)>>

InitDelete ==
    /\ now = SummaryNow
    /\ tz = 0
    /\ accounts = << >>
    /\ transactions = << >>
    /\ \E kept \in SUBSET {"b1", "b2", "b3", "b4"} :
         budgets = SelectSeq(DeleteBudgetRows, LAMBDA b : b.id \in kept)
    /\ plaidItems = << >>
    /\ NoProcesses
    /\ resp = NoResp

NextDelete == DeleteBudget

SpecDelete == InitDelete /\ [][NextDelete]_vars

\* C25: deleteBudget called by a signed-in user for a category for which that
\* user has no budget changes nothing in the store and reports success.
C25_DeleteOfNoBudgetIsNoOp ==
    [][(/\ resp'.op = "deleteBudget"
        /\ resp'.caller \in Users
        /\ typeof(resp'.args[1]) = "string" /\ ~Falsy(resp'.args[1])
        /\ ~\E b \in Range(budgets) :
               /\ b.user_id = resp'.caller
               /\ b.normalized_category = resp'.args[1].s)
       => /\ budgets' = budgets
          /\ resp'.status = 200
          /\ resp'.success]_vars

\* u2 has called deleteBudget('GROCERY') and succeeded while the store holds
\* the two budgets of u1 and none of u2: the state the call reaches from that
\* same store, in which u2 has no budget. The GROCERY budget of u1 is kept.
C25_Witness ==
    /\ resp.op = "deleteBudget" /\ resp.status = 200 /\ resp.success
    /\ resp.caller = "u2" /\ resp.args = <<Str("GROCERY")>>
    /\ budgets = <<DeleteBudgetRows[1], DeleteBudgetRows[2]>>

----------------------------------------------------------------------------
(* The mutations of single rows: PATCH /api/transactions/[id], the server  *)
(* action updateTransactionCategory and PATCH /api/accounts/[id]. Each is  *)
(* one store call: update ... .eq('id', id).eq('user_id', user.id)         *)
(* .select().single(); no matching row makes .single() report an error.    *)

TransactionPATCH(caller, id, body) ==
    LET op == "transaction-patch"
        req == [id |-> id, body |-> body]
        Hit(t) == t.id = id /\ OwnedBy(t, caller)
        Change(t) ==
            [t EXCEPT !.is_shared =
                          IF In(body.is_shared) THEN body.is_shared.b ELSE @,
                      !.normalized_category =
                          IF In(body.normalized_category)
                          THEN body.normalized_category.s ELSE @]
        reject(message) ==
            /\ resp' = ErrorResponse(op, caller, 400, message, 0) @@ [request |-> req]
            /\ UNCHANGED transactions
    IN  IF NoCurrentUser(caller)
        THEN resp' = Unauthorized(op) @@ [request |-> req] /\ UNCHANGED transactions
        ELSE IF In(body.is_shared) /\ typeof(body.is_shared) # "boolean"
        THEN reject("is_shared must be a boolean")
        ELSE IF In(body.normalized_category)
                    /\ typeof(body.normalized_category) # "string"
        THEN reject("normalized_category must be a string")
        ELSE IF ~In(body.is_shared) /\ ~In(body.normalized_category)
        THEN reject("No valid fields to update")
        ELSE /\ transactions' = UpdateWhere(transactions, Hit, Change)
             /\ LET transaction == Single(SelectSeq(transactions', Hit))
                IN  resp' = IF Found(transaction)
                            THEN [op |-> op, status |-> 200, error |-> Null,
                                  storeCalls |-> 1, caller |-> caller,
                                  request |-> req, transaction |-> transaction[1]]
                            ELSE ErrorResponse(op, caller, 500, "PGRST116", 1)
                                     @@ [request |-> req]

\* .update({ normalized_category: newCategory })
Recategorized_unshared(t, category) ==
    [t EXCEPT !.normalized_category = category, !.is_shared = FALSE]
Recategorized(t, category) == [t EXCEPT !.normalized_category = category]

\* The call on a table of transactions: what it answers and the table after.
updateTransactionCategoryOn(table, caller, transactionId, newCategory) ==
    LET op == "updateTransactionCategory"
        req == [id |-> transactionId, body |-> newCategory]
        Hit(t) == t.id = transactionId.s /\ OwnedBy(t, caller)
        Change(t) == Recategorized(t, newCategory.s)
        fail(message, storeCalls) ==
            [resp |-> Thrown(op, caller, message, storeCalls) @@ [request |-> req],
             transactions |-> table]
    IN  IF NoCurrentUser(caller)
        THEN fail("Unauthorized", 0)
        ELSE IF Falsy(transactionId) \/ typeof(transactionId) # "string"
        THEN fail("Invalid transaction ID", 0)
        ELSE IF Falsy(newCategory) \/ typeof(newCategory) # "string"
        THEN fail("Invalid category", 0)
        ELSE Bind(UpdateWhere(table, Hit, Change), LAMBDA updated :
             LET transaction == Single(SelectSeq(updated, Hit))
             IN  [resp |->
                      IF Found(transaction)
                      THEN [op |-> op, status |-> 200, error |-> Null,
                            storeCalls |-> 1, caller |-> caller,
                            request |-> req, transaction |-> transaction[1]]
                      ELSE Thrown(op, caller, "Failed to update transaction", 1)
                               @@ [request |-> req],
                  transactions |-> updated])

updateTransactionCategory(caller, transactionId, newCategory) ==
    LET call == updateTransactionCategoryOn(transactions, caller,
                                            transactionId, newCategory)
    IN  /\ transactions' = call.transactions
        /\ resp' = call.resp

AccountPATCH(caller, id, body) ==
    LET op == "account-patch"
        req == [id |-> id, body |-> body]
        Hit(a) == a.id = id /\ OwnedBy(a, caller)
        Change(a) == [a EXCEPT !.is_shared_source = body.is_shared_source.b]
    IN  IF NoCurrentUser(caller)
        THEN resp' = Unauthorized(op) @@ [request |-> req] /\ UNCHANGED accounts
        ELSE IF typeof(body.is_shared_source) # "boolean"
        THEN /\ resp' = ErrorResponse(op, caller, 400,
                            "is_shared_source must be a boolean", 0)
                            @@ [request |-> req]
             /\ UNCHANGED accounts
        ELSE /\ accounts' = UpdateWhere(accounts, Hit, Change)
             /\ LET account == Single(SelectSeq(accounts', Hit))
                IN  resp' = IF Found(account)
                            THEN [op |-> op, status |-> 200, error |-> Null,
                                  storeCalls |-> 1, caller |-> caller,
                                  request |-> req, account |-> account[1]]
                            ELSE ErrorResponse(op, caller, 500, "PGRST116", 1)
                                     @@ [request |-> req]

\* The requests a client can send.
TransactionIdParams == {"t1", "t2", "t-none"}
AccountIdParams == {"a1", "a2", "a-none"}
PatchBodies ==
    [is_shared : {Absent, Bool(TRUE), Str("yes")},
     normalized_category : {Absent, Str("TRAVEL"), Num(7000)}]
AccountPatchBodies == [is_shared_source : {Bool(TRUE), Bool(FALSE), Str("true"), Absent}]
TransactionIdArgs == {Str("t1"), Str("t2"), Str("")}
NewCategoryArgs == {Str("DINING"), Str(""), Absent}

PatchTransaction ==
    /\ \E caller \in Callers, id \in TransactionIdParams, body \in PatchBodies :
         TransactionPATCH(caller, id, body)
    /\ UNCHANGED <<clockVars, accounts, budgets, plaidItems, procVars>>

UpdateTransactionCategory ==
    /\ \E caller \in Callers, id \in TransactionIdArgs, category \in NewCategoryArgs :
         updateTransactionCategory(caller, id, category)
    /\ UNCHANGED <<clockVars, accounts, budgets, plaidItems, procVars>>

PatchAccount ==
    /\ \E caller \in Callers, id \in AccountIdParams, body \in AccountPatchBodies :
         AccountPATCH(caller, id, body)
    /\ UNCHANGED <<clockVars, transactions, budgets, plaidItems, procVars>>

\* A store with one account and one transaction per user and one budget.
AppAccounts == <<AccountRow("a1", "u1", TRUE), AccountRow("a2", "u2", FALSE)>>
AppTransactions ==
    WithIds(<<TxDraft("u1", "a1", 25000, "GROCERY", FALSE, SummaryNow.day - 2),
              TxDraft("u2", "a2", 40000, "GROCERY", FALSE, SummaryNow.day - 1)>>)
AppBudgets == <<BudgetRow("b1", "u1", "GROCERY", 300000)>>

InitMutate ==
    /\ now = SummaryNow
    /\ tz = 0
    /\ accounts = AppAccounts
    /\ transactions = AppTransactions
    /\ budgets = AppBudgets
    /\ plaidItems = << >>
    /\ NoProcesses
    /\ resp = NoResp

NextMutate ==
    \/ PatchTransaction
    \/ UpdateTransactionCategory
    \/ PatchAccount

SpecMutate == InitMutate /\ [][NextMutate]_vars

RowsOf(userId) ==
    [accounts     |-> SelectSeq(accounts, LAMBDA a : a.user_id = userId),
     transactions |-> SelectSeq(transactions, LAMBDA t : t.user_id = userId)]

\* C7: a transaction PATCH, an updateTransactionCategory call or an account
\* PATCH issued by one user leaves every transaction and every account of
\* every other user as it was.
C7_OtherUsersRowsUnchanged ==
    [][\A v \in Users : resp'.caller # v => RowsOf(v)' = RowsOf(v)]_vars

\* Each of the three mutations has been aimed by u1 at a row of u2: the
\* store matched no row.
C7_Witness ==
    /\ resp.op \in {"transaction-patch", "updateTransactionCategory", "account-patch"}
    /\ resp.caller = "u1"
    /\ resp.storeCalls = 1
    /\ resp.status = 500
    /\ \/ \E t \in Range(transactions) :
              /\ t.user_id = "u2"
              /\ resp.op = "transaction-patch" /\ resp.request.id = t.id
       \/ \E t \in Range(transactions) :
              /\ t.user_id = "u2"
              /\ resp.op = "updateTransactionCategory" /\ resp.request.id = Str(t.id)
       \/ \E a \in Range(accounts) :
              /\ a.user_id = "u2"
              /\ resp.op = "account-patch" /\ resp.request.id = a.id

\* C23: a transaction PATCH or an updateTransactionCategory call that
\* succeeds answers with the category the transaction had before the
\* mutation, together with its amount.
C23_MutationReturnsPriorCategory ==
    [][(/\ resp'.op \in {"transaction-patch", "updateTransactionCategory"}
        /\ resp'.status = 200)
       => \A i \in DOMAIN transactions :
              transactions[i].id = resp'.transaction.id =>
                  /\ resp'.transaction.amount = transactions[i].amount
                  /\ resp'.transaction.normalized_category =
                         transactions[i].normalized_category]_vars

\* The amount is in every answer of a successful transaction mutation.
MutationReturnsAmount ==
    [][(/\ resp'.op \in {"transaction-patch", "updateTransactionCategory"}
        /\ resp'.status = 200)
       => \A i \in DOMAIN transactions :
              transactions[i].id = resp'.transaction.id =>
                  resp'.transaction.amount = transactions[i].amount]_vars

----------------------------------------------------------------------------
(* The other read routes: category-trend, budget-overview, budget-status   *)
(* (getBudgetStatus), category-transactions and the server action          *)
(* getAvailableCategories. Rounded amounts are hundredths, the others      *)
(* thousandths. merchant_name is not modelled.                             *)

\* The categories in the order of String.prototype.localeCompare and of
\* the default Array.prototype.sort, which agree on them.
CategoryOrder == <<"DINING", "GROCERY", "OTHER", "TRAVEL", "Uncategorized">>
SortedCategories(S) == SelectSeq(CategoryOrder, LAMBDA c : c \in S)

\* date.toISOString(): the instant in UTC.
toISOString(date) ==
    [day  |-> formatDateForQuery(date),
     hour |-> (date.day * 24 + date.hour - tz) % 24]

\* The calendar month of a YYYY-MM-DD string: new Date(s + 'T00:00:00').
MonthKey(day) == [year |-> CivilFromDays(day).year, month |-> CivilFromDays(day).month]

\* if (month < 0) { month += 12; year -= 1; }
BorrowYear_never(month, year) == [month |-> month, year |-> year]
BorrowYear(month, year) ==
    IF month < 0
    THEN [month |-> month + 12, year |-> year - 1]
    ELSE [month |-> month, year |-> year]

getLastThreeMonths ==
    LET currentMonth == getMonth(now)
        currentYear  == getFullYear(now)
        months == [n \in 1 .. 3 |-> BorrowYear(currentMonth - (3 - n), currentYear)]
    IN  [start  |-> NewDate(months[1].year, months[1].month, 1),
         end    |-> NewDate(currentYear, currentMonth + 1, 0),
         months |-> months]

\* budget?.period_type === 'monthly' ? budget.amount : null
MonthlyLimit(budget) ==
    IF Found(budget) /\ budget[1].period_type = "monthly"
    THEN budget[1].amount ELSE NullNum

CategoryTrendGET(caller, categoryParam) ==
    IF NoCurrentUser(caller)
    THEN Unauthorized("category-trend")
    ELSE IF OrElse(categoryParam, Null) = Null
    THEN ErrorResponse("category-trend", caller, 400, "Category is required", 0)
    ELSE
    Bind(getLastThreeMonths, LAMBDA range :
    Bind(SelectSeq(transactions, LAMBDA t :
                    /\ t.user_id = caller
                    /\ t.normalized_category = categoryParam
                    /\ t.date >= formatDateForQuery(range.start)
                    /\ t.date <= formatDateForQuery(range.end)), LAMBDA txs :
    LET budget == Single(SelectSeq(budgets, LAMBDA b :
                    b.user_id = caller /\ b.normalized_category = categoryParam))
        Total(m) == SumSeq(MapSeq(
                        SelectSeq(txs, LAMBDA t : MonthKey(t.date) = m),
                        LAMBDA t : Abs(t.amount)))
    IN  [op |-> "category-trend", status |-> 200, error |-> Null, storeCalls |-> 2,
         caller |-> caller,
         monthlySpending |->
             MapSeq(range.months, LAMBDA m :
                 [monthIndex |-> m.month, year |-> m.year,
                  amount |-> Round2(Total(m)),
                  isCurrentMonth |->
                      m.month = getMonth(now) /\ m.year = getFullYear(now)]),
         budgetLimit |-> MonthlyLimit(budget)]))

BudgetOverviewGET(caller) ==
    IF NoCurrentUser(caller)
    THEN Unauthorized("budget-overview")
    ELSE
    Bind(getDateRanges, LAMBDA r :
    Bind(SelectSeq(transactions, LAMBDA t :
                    /\ t.user_id = caller
                    /\ t.date >= formatDateForQuery(r.monthStart)
                    /\ t.date <= formatDateForQuery(r.monthEnd)), LAMBDA txs :
    Bind(SelectSeq(budgets, LAMBDA b : b.user_id = caller), LAMBDA mine :
    LET budgeted == {b.normalized_category : b \in Range(mine)} \ {Null, ""}
        \* budgetMap.set: the last budget of a category wins
        BudgetOf(c) ==
            LET bs == SelectSeq(mine, LAMBDA b : b.normalized_category = c)
            IN  IF bs = << >> THEN << >> ELSE <<bs[Len(bs)]>>
        CategoryOf(t) == OrElse(t.normalized_category, "Uncategorized")
        weekStartStr == formatDateForQuery(r.weekStart)
        weekEndStr   == formatDateForQuery(r.weekEnd)
        Entry(c) ==
            LET inMonth == SelectSeq(txs, LAMBDA t : CategoryOf(t) = c)
                inWeek  == SelectSeq(inMonth, LAMBDA t :
                               t.date >= weekStartStr /\ t.date <= weekEndStr)
            IN  [category   |-> c,
                 spendMonth |-> Round2(SumSeq(MapSeq(inMonth, LAMBDA t : Abs(t.amount)))),
                 spendWeek  |-> Round2(SumSeq(MapSeq(inWeek, LAMBDA t : Abs(t.amount)))),
                 budgetLimitMonth |-> MonthlyLimit(BudgetOf(c)),
                 hasBudget  |-> c \in budgeted]
    IN  [op |-> "budget-overview", status |-> 200, error |-> Null, storeCalls |-> 2,
         caller |-> caller,
         categories |->
             MapSeq(SortedCategories({CategoryOf(t) : t \in Range(txs)} \cup budgeted),
                    Entry),
         currentMonthStart |-> toISOString(r.monthStart),
         currentMonthEnd   |-> toISOString(r.monthEnd),
         currentWeekStart  |-> toISOString(r.weekStart),
         currentWeekEnd    |-> toISOString(r.weekEnd)])))

getMonthDayInfo ==
    [currentDay |-> getDate(now),
     totalDays  |-> getDate(NewDate(getFullYear(now), getMonth(now) + 1, 0))]

\* Math.round(x * 100) / 100 of the quotient a / b of thousandths, a >= 0.
Round2Ratio(a, b) == (2 * a + 10 * b) \div (20 * b)

\* The outcome of a call that may throw.
Returned(value) == [thrown |-> FALSE, value |-> value]
Threw(message) == [thrown |-> TRUE, message |-> message]

\* The query of a request that the record store fails, if any.
StoreFaults == {"none", "budgets", "transactions"}

\* .from('budgets').select('*').eq('id', budgetId).eq('user_id', userId).single()
BudgetById_anyUser(userId, budgetId) ==
    Single(SelectSeq(budgets, LAMBDA b : b.id = budgetId))
BudgetById(userId, budgetId) ==
    Single(SelectSeq(budgets, LAMBDA b : b.id = budgetId /\ b.user_id = userId))

\* Number(budget.amount) - monthToDateSpend
RemainingAmount_clamped(amount, monthToDateSpend) ==
    IF amount < monthToDateSpend THEN 0 ELSE amount - monthToDateSpend
RemainingAmount(amount, monthToDateSpend) == amount - monthToDateSpend

\* getBudgetStatus(userId, budgetId): the status, or the error it throws:
\* 'Budget not found' when the budget query fails or finds no row, 'Failed
\* to fetch shared transactions' when the transactions query fails.
getBudgetStatus(userId, budgetId, fault) ==
    IF fault = "budgets"
    THEN Threw("Budget not found: store error")
    ELSE
    Bind(BudgetById(userId, budgetId), LAMBDA budget :
    IF ~Found(budget)
    THEN Threw("Budget not found: no rows")
    ELSE IF fault = "transactions"
    THEN Threw("Failed to fetch shared transactions: store error")
    ELSE
    Bind(budget[1], LAMBDA b :
    Bind(getSharedTransactionsForCurrentMonth(userId, b.normalized_category),
         LAMBDA txs :
    Bind(SumSeq(MapSeq(txs, LAMBDA t : t.amount)), LAMBDA monthToDateSpend :
    LET visitCount == Len(txs)
        info == getMonthDayInfo
    IN  Returned(
            [id |-> b.id, name |-> b.name,
             normalized_category |-> b.normalized_category,
             period_type |-> b.period_type, amount |-> b.amount,
             max_visits |-> b.max_visits,
             monthToDateSpend |-> monthToDateSpend,
             visitCount |-> visitCount,
             remainingAmount |-> RemainingAmount(b.amount, monthToDateSpend),
             remainingVisits |->
                 IF b.max_visits # NullNum THEN b.max_visits - visitCount
                 ELSE NullNum,
             projectedSpend |->
                 IF info.currentDay > 0 /\ monthToDateSpend > 0
                 THEN Round2Ratio(monthToDateSpend * info.totalDays, info.currentDay)
                 ELSE 0])))))

\* The route answers whatever getBudgetStatus throws with status 404 and the
\* error's message.
BudgetStatusGET(caller, id, fault) ==
    IF NoCurrentUser(caller)
    THEN Unauthorized("budget-status")
    ELSE Bind(getBudgetStatus(caller, id, fault), LAMBDA status :
             IF ~status.thrown
             THEN [op |-> "budget-status", status |-> 200, error |-> Null,
                   storeCalls |-> 2, caller |-> caller, budgetId |-> id,
                   budget |-> status.value]
             ELSE ErrorResponse("budget-status", caller, 404, status.message,
                                IF fault = "transactions" THEN 2 ELSE 1)
                      @@ [budgetId |-> id])

\* parseInt(param, 10) of the strings the requests carry.
\* The month indexes and years written in decimal are read back as numbers.
DecimalInts == (0 .. 11) \cup (2023 .. 2025)
parseInt(str) ==
    IF \E n \in DecimalInts : ToString(n) = str
    THEN Num(CHOOSE n \in DecimalInts : ToString(n) = str)
    ELSE NaN

CategoryTransactionsGET(caller, categoryParam, viewModeParam, monthParam, yearParam) ==
    IF NoCurrentUser(caller)
    THEN Unauthorized("category-transactions")
    ELSE IF OrElse(categoryParam, Null) = Null
    THEN ErrorResponse("category-transactions", caller, 400, "Category is required", 0)
    ELSE IF /\ monthParam # Null /\ yearParam # Null
            /\ (parseInt(monthParam) = NaN \/ parseInt(yearParam) = NaN)
    \* an Invalid Date: toISOString throws, nothing catches it
    THEN ErrorResponse("category-transactions", caller, 500, "RangeError", 0)
    ELSE
    LET viewMode == OrElse(viewModeParam, "monthly")
    IN
    Bind(getDateRanges, LAMBDA r :
    Bind(IF monthParam # Null /\ yearParam # Null
         THEN NewDate(parseInt(yearParam).n, parseInt(monthParam).n, 1)
         ELSE IF viewMode = "weekly" THEN r.weekStart ELSE r.monthStart,
         LAMBDA startDate :
    Bind(IF monthParam # Null /\ yearParam # Null
         THEN NewDate(parseInt(yearParam).n, parseInt(monthParam).n + 1, 0)
         ELSE IF viewMode = "weekly" THEN r.weekEnd ELSE r.monthEnd,
         LAMBDA endDate :
    LET txs == OrderByDateDesc(SelectSeq(transactions, LAMBDA t :
                    /\ t.user_id = caller
                    /\ t.normalized_category = categoryParam
                    /\ t.date >= formatDateForQuery(startDate)
                    /\ t.date <= formatDateForQuery(endDate)))
        allTx == SelectSeq(transactions, LAMBDA t :
                    t.user_id = caller /\ t.normalized_category # Null)
    IN  [op |-> "category-transactions", status |-> 200, error |-> Null,
         storeCalls |-> 2, caller |-> caller,
         startDateStr |-> formatDateForQuery(startDate),
         endDateStr |-> formatDateForQuery(endDate),
         transactions |->
             MapSeq(txs, LAMBDA t :
                 [id |-> t.id, date |-> t.date, amount |-> Abs(t.amount),
                  normalized_category |-> t.normalized_category]),
         allCategories |->
             SortedCategories({t.normalized_category : t \in Range(allTx)})])))

getAvailableCategories(caller) ==
    IF NoCurrentUser(caller)
    THEN Thrown("getAvailableCategories", caller, "Unauthorized", 0)
    ELSE LET data == SelectSeq(transactions, LAMBDA t :
                         t.user_id = caller /\ t.normalized_category # Null)
         IN  [op |-> "getAvailableCategories", status |-> 200, error |-> Null,
              storeCalls |-> 1, caller |-> caller,
              categories |->
                  SortedCategories({t.normalized_category : t \in Range(data)})]

CategoryParams == {"GROCERY", "TRAVEL", Null}
BudgetIdParams == {"b1", "b-none"}
ViewModeParams == {"weekly", Null}
MonthYearParams == {<<Null, Null>>, <<"1", "2024">>, <<"1", Null>>, <<"x", "2024">>}

GetCategoryTrend ==
    /\ \E caller \in Callers, category \in CategoryParams :
         resp' = CategoryTrendGET(caller, category)
    /\ UNCHANGED <<clockVars, storeVars, procVars>>

GetBudgetOverview ==
    /\ \E caller \in Callers : resp' = BudgetOverviewGET(caller)
    /\ UNCHANGED <<clockVars, storeVars, procVars>>

GetBudgetStatus ==
    /\ \E caller \in Callers, id \in BudgetIdParams, fault \in StoreFaults :
         resp' = BudgetStatusGET(caller, id, fault)
    /\ UNCHANGED <<clockVars, storeVars, procVars>>

GetCategoryTransactions ==
    /\ \E caller \in Callers, category \in CategoryParams,
          viewMode \in ViewModeParams, my \in MonthYearParams :
         resp' = CategoryTransactionsGET(caller, category, viewMode, my[1], my[2])
    /\ UNCHANGED <<clockVars, storeVars, procVars>>

GetAvailableCategories ==
    /\ \E caller \in Callers : resp' = getAvailableCategories(caller)
    /\ UNCHANGED <<clockVars, storeVars, procVars>>

----------------------------------------------------------------------------
(* The Plaid link routes and the health check.                             *)

\* POST /api/plaid/create-link-token: no store call; the provider answers
\* or fails.
CreateLinkToken ==
    /\ \E caller \in Callers, providerOk \in BOOLEAN :
         resp' = IF NoCurrentUser(caller)
                 THEN Unauthorized("create-link-token")
                 ELSE IF providerOk
                 THEN [op |-> "create-link-token", status |-> 200, error |-> Null,
                       storeCalls |-> 0, caller |-> caller]
                 ELSE ErrorResponse("create-link-token", caller, 500,
                                    "Failed to create link token", 0)
    /\ UNCHANGED <<clockVars, storeVars, procVars>>

PublicTokens == {Str("public-token"), Absent}
ProviderItems == {"item-1", "item-2", Null}     \* Null: the exchange failed

\* POST /api/plaid/exchange-public-token: the item is upserted on
\* (user_id, item_id).
ExchangePublicToken ==
    /\ \E caller \in Callers, public_token \in PublicTokens, item_id \in ProviderItems :
         LET op == "exchange-public-token"
             row == [user_id |-> caller, item_id |-> item_id]
         IN  IF NoCurrentUser(caller)
             THEN resp' = Unauthorized(op) /\ UNCHANGED plaidItems
             ELSE IF Falsy(public_token)
             THEN /\ resp' = ErrorResponse(op, caller, 400, "public_token is required", 0)
                  /\ UNCHANGED plaidItems
             ELSE IF item_id = Null
             THEN /\ resp' = ErrorResponse(op, caller, 500, "Failed to exchange token", 0)
                  /\ UNCHANGED plaidItems
             ELSE /\ plaidItems' =
                        IF row \in Range(plaidItems) THEN plaidItems
                        ELSE Append(plaidItems, row)
                  /\ resp' = [op |-> op, status |-> 200, error |-> Null,
                              storeCalls |-> 1, caller |-> caller, success |-> TRUE]
    /\ UNCHANGED <<clockVars, accounts, transactions, budgets, procVars>>

\* The health check GET: no user is looked up; one query goes to the
\* database, on a table that does not exist, and its answer or its failure
\* is reported with status 200.
HealthGET ==
    /\ \E caller \in Callers, supabaseReachable \in BOOLEAN :
         resp' = [op |-> "health", status |-> 200, error |-> Null,
                  storeCalls |-> 1, caller |-> caller,
                  supabaseReachable |-> supabaseReachable]
    /\ UNCHANGED <<clockVars, storeVars, procVars>>

----------------------------------------------------------------------------
(* Every entry point, one request per behaviour, on a store with rows of   *)
(* two users.                                                              *)

\* u1 has linked an item and imported its account before.
EntryAccounts ==
    Append(AppAccounts,
           [id |-> "a3", user_id |-> "u1", provider |-> "plaid",
            provider_account_id |-> "plaid-acc-1", name |-> "Checking",
            is_shared_source |-> FALSE])
EntryPlaidItems == <<[user_id |-> "u1", item_id |-> "item-1"]>>

InitEntry ==
    /\ now = SummaryNow
    /\ tz \in TzOffsets
    /\ accounts = EntryAccounts
    /\ transactions = AppTransactions
    /\ budgets = AppBudgets
    /\ plaidItems = EntryPlaidItems
    /\ NoProcesses
    /\ resp = NoResp

NoRequestYet == resp = NoResp /\ NoProcesses

NextEntry ==
    \/ NoRequestYet /\ GetSpendSummary
    \/ NoRequestYet /\ GetSharedTransactions
    \/ NoRequestYet /\ GetCategoryTrend
    \/ NoRequestYet /\ GetBudgetOverview
    \/ NoRequestYet /\ GetBudgetStatus
    \/ NoRequestYet /\ GetCategoryTransactions
    \/ NoRequestYet /\ GetAvailableCategories
    \/ NoRequestYet /\ PatchTransaction
    \/ NoRequestYet /\ UpdateTransactionCategory
    \/ NoRequestYet /\ PatchAccount
    \/ NoRequestYet /\ DeleteBudget
    \/ NoRequestYet /\ CreateLinkToken
    \/ NoRequestYet /\ ExchangePublicToken
    \/ NoRequestYet /\ HealthGET
    \/ NoRequestYet /\ \E c \in CallIds : UpsertBudgetCall(c)
    \/ NoRequestYet /\ \E r \in RunIds : StartMockImport(r)
    \/ NoRequestYet /\ \E r \in RunIds : StartPlaidSync(r)
    \/ \E c \in CallIds : BudgetStep(c)
    \/ \E r \in RunIds : ImportStep(r)

SpecEntry == InitEntry /\ [][NextEntry]_vars

StoreAsAtFirst ==
    /\ accounts = EntryAccounts
    /\ transactions = AppTransactions
    /\ budgets = AppBudgets
    /\ plaidItems = EntryPlaidItems

NoWorkForNoUser ==
    /\ \A r \in RunIds : runs[r].pc # "idle" => runs[r].user # NoUser
    /\ \A c \in CallIds : upserts[c].pc # "idle" => upserts[c].user # NoUser

AnsweredNoUser == resp # NoResp /\ resp.caller = NoUser

\* C8 as stated: every entry point, the health check GET among them, answers
\* a request without a user with Unauthorized and makes no store call.
C8_EveryEntryPointChecksUser ==
    /\ NoWorkForNoUser
    /\ AnsweredNoUser =>
           /\ resp.error = "Unauthorized"
           /\ resp.storeCalls = 0
           /\ StoreAsAtFirst

\* C8, amended: every entry point other than the health check GET answers a
\* request without a user with Unauthorized, makes no store call, starts no
\* import run and no budget write, and leaves the store as it was. The
\* health check GET looks up no user and answers 200 after one query.
C8_EveryEntryPointButHealthChecksUser ==
    /\ NoWorkForNoUser
    /\ (AnsweredNoUser /\ resp.op # "health") =>
           /\ resp.error = "Unauthorized"
           /\ resp.storeCalls = 0
           /\ StoreAsAtFirst
    /\ (AnsweredNoUser /\ resp.op = "health") =>
           /\ resp.status = 200
           /\ resp.storeCalls = 1
           /\ StoreAsAtFirst

\* A server action has thrown Unauthorized for a request without a user.
C8_Witness ==
    /\ AnsweredNoUser
    /\ resp.op = "upsertBudget"
    /\ resp.error = "Unauthorized"
    /\ resp.storeCalls = 0

WellFormedBudgetArgs(args) ==
    /\ args[1].tag = "string" /\ args[1].s # ""
    /\ args[2].tag = "number" /\ args[2].n > 0

MalformedPatchBody(body) ==
    \/ In(body.is_shared) /\ body.is_shared.tag # "boolean"
    \/ In(body.normalized_category) /\ body.normalized_category.tag # "string"
    \/ ~In(body.is_shared) /\ ~In(body.normalized_category)

\* C9: a transaction PATCH with a malformed body is answered 400 with no
\* store call; upsertBudget with an amount that is not a positive number or
\* with an empty category fails with no store call and never gets as far as
\* its existence check; the store is as it was.
C9_MalformedRejectedBeforeStore ==
    /\ \A c \in CallIds :
           upserts[c].pc # "idle" => WellFormedBudgetArgs(upserts[c].args)
    /\ (resp.op = "transaction-patch" /\ ~NoCurrentUser(resp.caller)
            /\ MalformedPatchBody(resp.request.body)) =>
           /\ resp.status = 400
           /\ resp.storeCalls = 0
           /\ StoreAsAtFirst
    /\ (resp.op = "upsertBudget" /\ ~NoCurrentUser(resp.caller)
            /\ ~WellFormedBudgetArgs(resp.args)) =>
           /\ resp.error # Null
           /\ resp.storeCalls = 0
           /\ StoreAsAtFirst

----------------------------------------------------------------------------
(* The date ranges as the read requests use them. The store holds one      *)
(* transaction of u1 on every day at the edge of a range (the day before   *)
(* and the first day, the last day and the day after), each with an amount *)
(* of its own power of two, so that the days a request selects show in its *)
(* response, in its rows or in its sums.                                    *)

\* The local calendar, by the days' own civil dates.
FirstOfMonth(d) == d.day - getDate(d) + 1
LastOfMonth(d) ==
    CHOOSE x \in d.day .. (d.day + 31) :
        MonthKey(x) = MonthKey(d.day) /\ MonthKey(x + 1) # MonthKey(d.day)
MondayOf(d) == CHOOSE x \in (d.day - 6) .. d.day : (x + 4) % 7 = 1

EdgeDays(d) ==
    {FirstOfMonth(d) - 1, FirstOfMonth(d), LastOfMonth(d), LastOfMonth(d) + 1,
     MondayOf(d) - 1, MondayOf(d), MondayOf(d) + 6, MondayOf(d) + 7,
     d.day - 30, d.day - 29, d.day, d.day + 1}

RECURSIVE SortedSeq(_)
SortedSeq(S) ==
    IF S = {} THEN << >>
    ELSE LET m == CHOOSE x \in S : \A y \in S : x <= y
         IN  <<m>> \o SortedSeq(S \ {m})

\* Whole currency units 1, 2, 4, ...: the sum of a set of rows names the set.
EdgeTransactions(d) ==
    LET days == SortedSeq(EdgeDays(d))
    IN  WithIds([i \in 1 .. Len(days) |->
                    TxDraft("u1", "a1", 1000 * 2^(i - 1), "GROCERY", FALSE, days[i])])

\* The days of the rows that add up to a sum of cents.
DaysOfSum(cents, d) ==
    LET days == SortedSeq(EdgeDays(d))
    IN  {days[i] : i \in {j \in 1 .. Len(days) : (cents \div (100 * 2^(j - 1))) % 2 = 1}}

InitRanges ==
    /\ now \in Clocks
    /\ tz \in TzOffsets
    /\ accounts = <<AccountRow("a1", "u1", TRUE)>>
    /\ transactions = EdgeTransactions(now)
    /\ budgets = << >>
    /\ plaidItems = << >>
    /\ NoProcesses
    /\ resp = NoResp

\* The requests of u1 for the current ranges: no category filter on the
\* shared transactions, no month and year on the category transactions.
RangePeriods == {"current_month", "last_30_days"}

RangeSpendSummary ==
    /\ \E periodParam \in RangePeriods :
         resp' = SpendSummaryGET("u1", periodParam, Null)
    /\ UNCHANGED <<clockVars, storeVars, procVars>>

RangeSharedTransactions ==
    /\ resp' = SharedTransactionsGET("u1", Null, Null)
    /\ UNCHANGED <<clockVars, storeVars, procVars>>

RangeBudgetOverview ==
    /\ resp' = BudgetOverviewGET("u1")
    /\ UNCHANGED <<clockVars, storeVars, procVars>>

RangeCategoryTransactions ==
    /\ \E viewMode \in ViewModeParams :
         resp' = CategoryTransactionsGET("u1", "GROCERY", viewMode, Null, Null)
    /\ UNCHANGED <<clockVars, storeVars, procVars>>

NextRanges ==
    \/ FirstRequest /\ RangeSpendSummary
    \/ FirstRequest /\ RangeSharedTransactions
    \/ FirstRequest /\ RangeBudgetOverview
    \/ FirstRequest /\ RangeCategoryTransactions

SpecRanges == InitRanges /\ [][NextRanges]_vars

\* The days of the rows a response carries.
SummaryDays == {t.date : t \in Range(Flatten(MapSeq(resp.accounts, LAMBDA a : a.transactions)))}
ListedDays == {t.date : t \in Range(resp.transactions)}

Last30Answered ==
    /\ resp.op = "spend-summary" /\ resp.status = 200
    /\ resp.caller = "u1" /\ resp.period = "last_30_days"

\* C11: for period last_30_days and every 'now' the bounds spend-summary
\* queries with are the day after now's day (exclusive) and the day 30 days
\* before it, and the rows selected are those of the 30 days that end today.
C11_Last30DaysEndsTomorrow ==
    Last30Answered =>
        /\ resp.endDateStr = now.day + 1
        /\ resp.startDateStr = resp.endDateStr - 30
        /\ SummaryDays = {d \in EdgeDays(now) : now.day - 29 <= d /\ d <= now.day}

\* The days of now's calendar month among the days the store has rows on.
MonthDays == {d \in EdgeDays(now) : FirstOfMonth(now) <= d /\ d <= LastOfMonth(now)}

\* The days in the month sum of the budget overview's only category.
OverviewMonthDays ==
    IF resp.categories = << >> THEN {}
    ELSE DaysOfSum(resp.categories[1].spendMonth, now)

\* C12: for every 'now' the current-month requests select exactly the days
\* of now's calendar month, whether they query with an exclusive end
\* (spend-summary, getCurrentMonthRange behind the shared transactions) or
\* with an inclusive end (budget-overview, category-transactions).
C12_MonthConventionsAgree ==
    /\ (resp.op = "spend-summary" /\ resp.status = 200
            /\ resp.period = "current_month") => SummaryDays = MonthDays
    /\ (resp.op = "shared-transactions" /\ resp.status = 200) => ListedDays = MonthDays
    /\ (resp.op = "budget-overview" /\ resp.status = 200) => OverviewMonthDays = MonthDays
    /\ resp = CategoryTransactionsGET("u1", "GROCERY", Null, Null, Null) =>
           ListedDays = MonthDays

\* C13: for every 'now' and every UTC offset of the server, the YYYY-MM-DD
\* strings the requests bound their queries with name the local days they
\* were built from: day 1 of now's month, its last day (the day after it
\* with an exclusive end), the Monday and the Sunday of now's week, and the
\* day after today for the last 30 days.
C13_QueryBoundsNameLocalDays ==
    /\ (resp.op = "spend-summary" /\ resp.status = 200
            /\ resp.period = "current_month") =>
           /\ resp.startDateStr = FirstOfMonth(now)
           /\ resp.endDateStr = LastOfMonth(now) + 1
    /\ Last30Answered =>
           /\ resp.startDateStr = now.day - 29
           /\ resp.endDateStr = now.day + 1
    /\ (resp.op = "shared-transactions" /\ resp.status = 200) =>
           getCurrentMonthRange = [startDate |-> FirstOfMonth(now),
                                   endDate   |-> LastOfMonth(now) + 1]
    /\ (resp.op = "budget-overview" /\ resp.status = 200) =>
           /\ resp.currentMonthStart.day = FirstOfMonth(now)
           /\ resp.currentMonthEnd.day = LastOfMonth(now)
           /\ resp.currentWeekStart.day = MondayOf(now)
           /\ resp.currentWeekEnd.day = MondayOf(now) + 6
    /\ resp = CategoryTransactionsGET("u1", "GROCERY", Null, Null, Null) =>
           /\ resp.startDateStr = FirstOfMonth(now)
           /\ resp.endDateStr = LastOfMonth(now)
    /\ resp = CategoryTransactionsGET("u1", "GROCERY", "weekly", Null, Null) =>
           /\ resp.startDateStr = MondayOf(now)
           /\ resp.endDateStr = MondayOf(now) + 6

\* The total of the absolute amounts of u1's transactions of a category dated
\* in the local Monday-to-Sunday week of now, in cents.
WeekTotalOf(category) ==
    Round2(SumSeq(MapSeq(
        SelectSeq(transactions, LAMBDA t :
            /\ t.user_id = "u1"
            /\ OrElse(t.normalized_category, "Uncategorized") = category
            /\ t.date \in MondayOf(now) .. (MondayOf(now) + 6)),
        LAMBDA t : Abs(t.amount))))

\* The total of the transactions category-transactions lists for
\* viewMode=weekly, in cents.
WeeklyListTotalOf(category) ==
    Round2(SumSeq(MapSeq(
        CategoryTransactionsGET("u1", category, "weekly", Null, Null).transactions,
        LAMBDA t : t.amount)))

\* C26: for every category and every now, the spendWeek of the budget
\* overview is the total of the category's transactions dated in the current
\* Monday-to-Sunday week, also when that week begins in the previous month or
\* ends in the next one, and so it agrees with the total of the transactions
\* that category-transactions lists for the weekly view.
C26_SpendWeekCoversTheWeek ==
    (resp.op = "budget-overview" /\ resp.status = 200) =>
        \A i \in DOMAIN resp.categories :
            LET row == resp.categories[i]
            IN  /\ row.spendWeek = WeekTotalOf(row.category)
                /\ row.spendWeek = WeeklyListTotalOf(row.category)

\* spendWeek and the weekly list disagree although the server's clock is UTC.
SpendWeekAgreesWithListAtUtc ==
    (resp.op = "budget-overview" /\ resp.status = 200 /\ tz = 0) =>
        \A i \in DOMAIN resp.categories :
            resp.categories[i].spendWeek = WeeklyListTotalOf(resp.categories[i].category)

\* While the week lies inside the month, spendWeek and the weekly list agree.
SpendWeekAgreesInsideMonth ==
    (/\ resp.op = "budget-overview" /\ resp.status = 200
     /\ FirstOfMonth(now) < MondayOf(now) /\ MondayOf(now) + 7 < LastOfMonth(now)) =>
        \A i \in DOMAIN resp.categories :
            resp.categories[i].spendWeek = WeeklyListTotalOf(resp.categories[i].category)

----------------------------------------------------------------------------
(* The budget status over bounded stores: budgets of two users, shared and *)
(* unshared transactions of the budget's category and of another, dated    *)
(* today and on the last day of the previous month.                        *)

MaxStatusTx == 2

\* The first and the last day of a leap February, a mid-month day, and the
\* last day of a year.
StatusClocks ==
    {[day |-> DaysFromCivil(2024, 2, 1), hour |-> 12],
     [day |-> DaysFromCivil(2024, 2, 29), hour |-> 12],
     [day |-> DaysFromCivil(2024, 3, 15), hour |-> 12],
     [day |-> DaysFromCivil(2023, 12, 31), hour |-> 12]}

\* 115.00 spent or 20.00 refunded on the shared account a1; 115.00 of
\* GROCERY on the unshared account a2.
StatusTxs(d) ==
    {TxDraft("u1", "a1", m, c, FALSE, day) :
        m \in {115000, -20000}, c \in {"GROCERY", "TRAVEL"},
        day \in {FirstOfMonth(d) - 1, d.day}}
    \cup {TxDraft("u1", "a2", 115000, "GROCERY", FALSE, d.day)}

\* The scenario: a budget of 300 and four transactions summing to 345.00.
StatusScenario(d) ==
    WithIds(<<TxDraft("u1", "a1", 100000, "GROCERY", FALSE, FirstOfMonth(d)),
              TxDraft("u1", "a1", 120000, "GROCERY", FALSE, FirstOfMonth(d)),
              TxDraft("u1", "a1", 80000, "GROCERY", FALSE, FirstOfMonth(d)),
              TxDraft("u1", "a1", 45000, "GROCERY", FALSE, FirstOfMonth(d))>>)

StatusBudgets ==
    <<BudgetRow("b1", "u1", "GROCERY", 300000),
      BudgetRow("b2", "u2", "GROCERY", 100000)>>

InitStatus ==
    /\ now \in StatusClocks
    /\ tz \in TzOffsets
    /\ accounts = <<AccountRow("a1", "u1", TRUE), AccountRow("a2", "u1", FALSE)>>
    /\ \/ \E rows \in SeqsUpTo(StatusTxs(now), MaxStatusTx) :
              transactions = WithIds(rows)
       \/ transactions = StatusScenario(now)
    /\ budgets = StatusBudgets
    /\ plaidItems = << >>
    /\ NoProcesses
    /\ resp = NoResp

NextStatus == FirstRequest /\ GetBudgetStatus

SpecStatus == InitStatus /\ [][NextStatus]_vars

OkStatus == resp.op = "budget-status" /\ resp.status = 200

\* The stored budget a status answers for, and the stored transactions that
\* match it: the caller's shared rows of its category in the queried range.
StoredBudget == CHOOSE b \in Range(budgets) : b.id = resp.budgetId
MatchingRows ==
    {t \in SharedInRange(resp.caller, getCurrentMonthRange.startDate,
                         getCurrentMonthRange.endDate) :
        t.normalized_category = StoredBudget.normalized_category}

\* C14: in every budget status remainingAmount is the budget's amount minus
\* monthToDateSpend, which is the sum of the matching transactions, and
\* visitCount is their number; a result below zero is returned as it is (the
\* scenario: 300 against 345.00 in four transactions gives -45.00 and 4).
C14_RemainingIsAmountMinusSpend ==
    OkStatus =>
        /\ resp.budget.monthToDateSpend = SumAmounts(MatchingRows)
        /\ resp.budget.visitCount = Cardinality(MatchingRows)
        /\ resp.budget.amount = StoredBudget.amount
        /\ resp.budget.remainingAmount =
               StoredBudget.amount - SumAmounts(MatchingRows)
        /\ transactions = StatusScenario(now) =>
               /\ resp.budget.remainingAmount = -45000
               /\ resp.budget.visitCount = 4

\* The scenario answered: 45.00 over budget after four visits.
C14_Witness ==
    /\ OkStatus
    /\ transactions = StatusScenario(now)
    /\ resp.budget.monthToDateSpend = 345000
    /\ resp.budget.remainingAmount = -45000
    /\ resp.budget.visitCount = 4

\* C15: projectedSpend is monthToDateSpend / currentDay * totalDays rounded
\* to cents when currentDay > 0 and monthToDateSpend > 0, else 0, with
\* currentDay and totalDays those of the calendar month that every
\* transaction in monthToDateSpend is dated in.
C15_ProjectionOfTheSameMonth ==
    OkStatus =>
        LET spend     == resp.budget.monthToDateSpend
            projected == resp.budget.projectedSpend
            day       == now.day - FirstOfMonth(now) + 1
            total     == LastOfMonth(now) - FirstOfMonth(now) + 1
        IN  /\ IF day > 0 /\ spend > 0
               THEN /\ 10 * day * (2 * projected - 1) <= 2 * spend * total
                    /\ 2 * spend * total < 10 * day * (2 * projected + 1)
               ELSE projected = 0
            /\ \A t \in MatchingRows : MonthKey(t.date) = MonthKey(now.day)

NoSuchBudget ==
    ~\E b \in Range(budgets) : b.id = resp.budgetId /\ b.user_id = resp.caller

\* C16: the status of a budget id that does not exist or that another user
\* owns is answered with status 404 and a 'Budget not found' error: the
\* error getBudgetStatus throws ends at the route's response.
C16_UnknownBudgetIsNotFound ==
    (resp.op = "budget-status" /\ resp.caller \in Users /\ NoSuchBudget) =>
        /\ resp.status = 404
        /\ resp.error \in {"Budget not found: no rows", "Budget not found: store error"}

\* u2 has asked for the status of u1's budget.
C16_Witness ==
    /\ resp.op = "budget-status"
    /\ resp.caller = "u2" /\ resp.budgetId = "b1"
    /\ NoSuchBudget
    /\ resp.status = 404
    /\ resp.error = "Budget not found: no rows"

\* C17: when the store fails while the status of the caller's own budget is
\* evaluated, the response is a failure of the server, not the 404 that a
\* budget that does not exist is answered with.
C17_StoreFailureIsNotNotFound ==
    \A caller \in Users, id \in BudgetIdParams, fault \in StoreFaults \ {"none"} :
        (/\ \E b \in Range(budgets) : b.id = id /\ b.user_id = caller
         /\ resp = BudgetStatusGET(caller, id, fault)) =>
            /\ resp.status >= 500
            /\ resp.status # BudgetStatusGET(caller, "b-none", "none").status

----------------------------------------------------------------------------
(* The category trend for every 'now' of the clock bounds, over the store  *)
(* of the application.                                                     *)

InitTrend ==
    /\ now \in Clocks
    /\ tz \in TzOffsets
    /\ accounts = AppAccounts
    /\ transactions = AppTransactions
    /\ budgets = AppBudgets
    /\ plaidItems = << >>
    /\ NoProcesses
    /\ resp = NoResp

NextTrend == FirstRequest /\ GetCategoryTrend

SpecTrend == InitTrend /\ [][NextTrend]_vars

OkTrend == resp.op = "category-trend" /\ resp.status = 200

\* The calendar month after the month of a point.
MonthAfter(p) ==
    IF p.monthIndex = 11
    THEN [monthIndex |-> 0, year |-> p.year + 1]
    ELSE [monthIndex |-> p.monthIndex + 1, year |-> p.year]

----------------------------------------------------------------------------
(* Recategorizing a transaction and moving it back: two calls of           *)
(* updateTransactionCategory with no other write between them. The first   *)
(* call's response is kept together with what was observed when it was     *)
(* made: the category the transaction had and the aggregation of the store. *)

RecatTransactions ==
    WithIds(<<TxDraft("u1", "a1", 25000, "GROCERY", FALSE, SummaryNow.day - 2),
              TxDraft("u1", "a1", 40000, "TRAVEL", FALSE, SummaryNow.day - 1),
              TxDraft("u1", "a3", 12345, "GROCERY", TRUE, SummaryNow.day),
              TxDraft("u1", "a3", 10000, Null, FALSE, SummaryNow.day),
              TxDraft("u2", "a2", 40000, "GROCERY", FALSE, SummaryNow.day - 1)>>)

RecatIds == {"t1", "t2", "t3", "t4", "t5", "t-none"}
RecatCategories == {"GROCERY", "DINING", "TRAVEL"}

\* What the dashboards show of a user's store: the budget overview's
\* category sums and the category rollups (total and count) of the spend
\* summary, of all transactions and of the shared ones.
AggregationOf(userId) ==
    [overview |-> BudgetOverviewGET(userId).categories,
     rollups  |-> computeCategoryRollups(
                      SpendSummaryGET(userId, "current_month", Null).accounts),
     shared   |-> computeCategoryRollups(
                      SpendSummaryGET(userId, "current_month", "true").accounts)]

Aggregation == [u \in Users |-> AggregationOf(u)]

StoredCategoryOf(id) ==
    LET rows == SelectSeq(transactions, LAMBDA t : t.id = id)
    IN  IF rows = << >> THEN Null ELSE rows[1].normalized_category

InitRecat ==
    /\ now = SummaryNow
    /\ tz \in TzOffsets
    /\ accounts = EntryAccounts
    /\ transactions = RecatTransactions
    /\ budgets = AppBudgets
    /\ plaidItems = << >>
    /\ NoProcesses
    /\ resp = NoResp

\* The first call: a transaction is given a category.
MoveThere ==
    /\ FirstRequest
    /\ \E caller \in Callers, id \in RecatIds, category \in RecatCategories :
         LET call == updateTransactionCategoryOn(transactions, caller,
                                                 Str(id), Str(category))
         IN  /\ transactions' = call.transactions
             /\ resp' = call.resp @@ [calls |-> 1,
                                      from |-> StoredCategoryOf(id),
                                      before |-> Aggregation]
    /\ UNCHANGED <<clockVars, accounts, budgets, plaidItems, procVars>>

\* The second call: the same caller gives the transaction the category it
\* had, when the first call succeeded and there was one.
MoveBack ==
    /\ resp.op = "updateTransactionCategory"
    /\ resp.status = 200 /\ resp.calls = 1 /\ resp.from # Null
    /\ LET call == updateTransactionCategoryOn(transactions, resp.caller,
                                               resp.request.id, Str(resp.from))
       IN  /\ transactions' = call.transactions
           /\ resp' = call.resp @@ [calls |-> 2, from |-> resp.from,
                                    via |-> resp.request.body.s,
                                    before |-> resp.before]
    /\ UNCHANGED <<clockVars, accounts, budgets, plaidItems, procVars>>

NextRecat == MoveThere \/ MoveBack

SpecRecat == InitRecat /\ [][NextRecat]_vars

MovedBack ==
    /\ resp.op = "updateTransactionCategory"
    /\ resp.status = 200 /\ resp.calls = 2

\* C19: after a transaction was moved from category A to category B and
\* back to A by two successful updateTransactionCategory calls, every
\* category's total and count, recomputed from the store, are what they
\* were before the first call.
C19_ThereAndBackRestoresAggregation ==
    MovedBack =>
        /\ Aggregation = resp.before
        /\ transactions = RecatTransactions

\* A transaction of GROCERY was moved to DINING and back.
C19_Witness ==
    /\ MovedBack
    /\ resp.from = "GROCERY" /\ resp.via = "DINING"
    /\ resp.transaction.normalized_category = "GROCERY"
    /\ Aggregation = resp.before

----------------------------------------------------------------------------
(* dashboard/spend-summary.tsx: the SpendSummary component. It loads the   *)
(* spend summary into data; updateTransaction changes data at once, sends  *)
(* the PATCH, and puts the data it saw when it was called back when the    *)
(* PATCH fails. Several updates can be in flight; each settles on its own. *)

\* How many updates the component makes.
MaxUpdates == 2

\* setData(result): the body of a spend-summary response.
LoadedData(response) ==
    [loaded |-> TRUE, totalAmount |-> response.totalAmount,
     accounts |-> response.accounts, categories |-> response.categories]

\* { ...tx, isShared: updates.isShared, normalizedCategory: ... } for the
\* fields of updates that are not undefined.
ApplyUpdates(tx, updates) ==
    [tx EXCEPT
        !.isShared = IF updates.isShared = Absent THEN @ ELSE updates.isShared.b,
        !.normalizedCategory =
            CASE updates.normalizedCategory = Absent -> @
              [] updates.normalizedCategory = JsNull -> Null
              [] OTHER -> updates.normalizedCategory.s]

\* The optimistic update: the data with the updates on the transaction.
OptimisticData(current, transactionId, updates) ==
    [current EXCEPT !.accounts =
        MapSeq(current.accounts, LAMBDA account :
            [account EXCEPT !.transactions =
                MapSeq(account.transactions, LAMBDA tx :
                    IF tx.id = transactionId THEN ApplyUpdates(tx, updates)
                    ELSE tx)])]

\* catch { setData(previousData) }
RolledBack_kept(previousData, current) == current
RolledBack(previousData, current) == previousData

\* JSON.stringify({ is_shared, normalized_category }): an undefined field
\* is left out of the body.
PatchBodyOf(updates) ==
    [is_shared |-> updates.isShared,
     normalized_category |-> updates.normalizedCategory]

DisplayedTransactions(data) ==
    Range(Flatten(MapSeq(data.accounts, LAMBDA a : a.transactions)))
Displayed(data, transactionId) ==
    CHOOSE tx \in DisplayedTransactions(data) : tx.id = transactionId

\* The controls of a displayed transaction: the shared checkbox toggles,
\* the category dropdown gives a category or, for 'No category', null.
UpdatesOf(tx) ==
    {[isShared |-> Bool(~tx.isShared), normalizedCategory |-> Absent],
     [isShared |-> Absent, normalizedCategory |-> Str("DINING")],
     [isShared |-> Absent, normalizedCategory |-> JsNull]}

\* useEffect / fetchSummary: the summary of the signed-in user u1 for the
\* period the component starts with, with the shared filter on or off.
FetchSummary ==
    /\ view.started < MaxUpdates
    /\ \E sharedOnlyParam \in {"true", "false"} :
         /\ resp' = SpendSummaryGET("u1", "current_month", sharedOnlyParam)
         /\ view' = [view EXCEPT !.data = LoadedData(resp'),
                                 !.last = [event |-> "loaded"]]
    /\ UNCHANGED <<clockVars, storeVars, runs, upserts, budgetView>>

\* updateTransaction up to its await: the optimistic update, and the PATCH
\* is on its way.
StartUpdate ==
    /\ view.data.loaded
    /\ view.started < MaxUpdates
    /\ \E tx \in DisplayedTransactions(view.data) : \E updates \in UpdatesOf(tx) :
         LET call == [transactionId |-> tx.id, updates |-> updates,
                      previousData |-> view.data]
         IN  view' = [data |-> OptimisticData(view.data, tx.id, updates),
                      updatingTransactions |->
                          view.updatingTransactions \cup {tx.id},
                      inflight |-> Append(view.inflight, call),
                      started |-> view.started + 1,
                      last |-> call @@ [event |-> "updated"]]
    /\ UNCHANGED <<clockVars, storeVars, runs, upserts, budgetView, resp>>

\* The component after the PATCH of the i-th update in flight has settled.
Settled(i, ok) ==
    LET call == view.inflight[i]
    IN  [data |-> IF ok THEN view.data
                  ELSE RolledBack(call.previousData, view.data),
         updatingTransactions |->
             view.updatingTransactions \ {call.transactionId},
         inflight |-> SubSeq(view.inflight, 1, i - 1)
                          \o SubSeq(view.inflight, i + 1, Len(view.inflight)),
         started |-> view.started,
         last |-> call @@ [event |-> IF ok THEN "saved" ELSE "rolled-back"]]

\* updateTransaction from its await on: fetch rejects, or the route handles
\* the PATCH (for u1, or for nobody when the session has ended) and the
\* response is ok or not.
SettleUpdate ==
    /\ \E i \in 1 .. Len(view.inflight) :
         \/ /\ view' = Settled(i, FALSE)
            /\ UNCHANGED <<transactions, resp>>
         \/ \E caller \in {"u1", NoUser} :
              /\ TransactionPATCH(caller, view.inflight[i].transactionId,
                                  PatchBodyOf(view.inflight[i].updates))
              /\ view' = Settled(i, resp'.status = 200)
    /\ UNCHANGED <<clockVars, accounts, budgets, plaidItems, runs, upserts, budgetView>>

InitClient ==
    /\ now = SummaryNow
    /\ tz = 0
    /\ accounts = EntryAccounts
    /\ transactions = RecatTransactions
    /\ budgets = AppBudgets
    /\ plaidItems = << >>
    /\ NoProcesses
    /\ resp = NoResp

NextClient == FetchSummary \/ StartUpdate \/ SettleUpdate

SpecClient == InitClient /\ [][NextClient]_vars

\* C20: right after updateTransaction is called, with its PATCH still in
\* flight, the displayed transaction has the new isShared or category and
\* nothing else displayed has changed; when the PATCH fails, the displayed
\* data is the snapshot taken when the update was made, and the transaction
\* shows the values it had before the change.
C20_OptimisticThenRollback ==
    /\ view.last.event = "updated" =>
           LET shown  == Displayed(view.data, view.last.transactionId)
               before == Displayed(view.last.previousData, view.last.transactionId)
           IN  /\ \E i \in 1 .. Len(view.inflight) :
                      view.inflight[i].transactionId = view.last.transactionId
               /\ view.last.updates.isShared # Absent =>
                      /\ shown.isShared = view.last.updates.isShared.b
                      /\ shown.normalizedCategory = before.normalizedCategory
               /\ view.last.updates.normalizedCategory # Absent =>
                      /\ shown.isShared = before.isShared
                      /\ shown.normalizedCategory =
                             IF view.last.updates.normalizedCategory = JsNull
                             THEN Null
                             ELSE view.last.updates.normalizedCategory.s
               /\ \A tx \in DisplayedTransactions(view.data) :
                      tx.id # view.last.transactionId =>
                          tx \in DisplayedTransactions(view.last.previousData)
    /\ view.last.event = "rolled-back" =>
           /\ view.data = view.last.previousData
           /\ Displayed(view.data, view.last.transactionId) =
                  Displayed(view.last.previousData, view.last.transactionId)
           /\ view.last.transactionId \notin view.updatingTransactions

\* The shared checkbox of t1 was ticked, the PATCH failed, and t1 is shown
\* unshared again.
C20_Witness ==
    /\ view.last.event = "rolled-back"
    /\ view.last.transactionId = "t1"
    /\ view.last.updates.isShared = Bool(TRUE)
    /\ ~Displayed(view.data, "t1").isShared
    /\ view.data # OptimisticData(view.data, "t1", view.last.updates)

\* C27: with updates of different transactions in flight together, the
\* rollback of the update whose PATCH failed restores only the fields of its
\* own transaction: every other displayed transaction, and with it the change
\* of an update that succeeds, stays as it was displayed.
C27_RollbackTouchesOnlyItsTransaction ==
    [][(/\ Len(view'.inflight) < Len(view.inflight)
        /\ view'.last.event = "rolled-back")
       => \A tx \in DisplayedTransactions(view.data) :
              tx.id # view'.last.transactionId =>
                  tx \in DisplayedTransactions(view'.data)]_vars

\* t1 was moved to DINING and saved, then the rollback of an update of
\* another transaction, made before, shows t1 with its old category while the
\* store has DINING.
SavedChangeLost ==
    /\ view.last.event = "rolled-back"
    /\ view.last.transactionId # "t1"
    /\ view.inflight = << >>
    /\ Displayed(view.data, "t1").normalizedCategory = "GROCERY"
    /\ StoredCategoryOf("t1") = "DINING"

-----------------------------------------------------------------------------
(* app/dashboard/budget-view.tsx and category-drawer.tsx: BudgetView, the  *)
(* CategoryDrawer it opens and the CategoryTransactionList inside it, for  *)
(* the signed-in user u1. Amounts of the overview are in cents, amounts of *)
(* the listed transactions and the drawer's local spend amount in mills.   *)
(* The drawer covers the page while it is open, so the view mode is chosen *)
(* before it opens; the drawer stays open in this specification.           *)

\* How many category moves the user starts.
MaxMoves == 2

\* setData(result) of fetchBudgetData.
OverviewData(response) == [loaded |-> TRUE, categories |-> response.categories]

\* getSpendAmount(category), in cents.
getSpendAmount(viewMode, category) ==
    IF viewMode = "monthly" THEN category.spendMonth ELSE category.spendWeek

\* Math.max(0, Math.round((spend - amount) * 100) / 100)
SubtractSpend(spend, amount) ==
    LET rounded == Round2(spend * 10 - amount)
    IN  IF rounded < 0 THEN 0 ELSE rounded

\* Math.round((spend + amount) * 100) / 100
AddSpend(spend, amount) == Round2(spend * 10 + amount)

\* prevData.categories.map(...) of BudgetView.handleTransactionMoved.
MovedCategories(categories, amount, fromCategory, toCategory) ==
    MapSeq(categories, LAMBDA cat :
        IF cat.category = fromCategory
        THEN [cat EXCEPT !.spendMonth = SubtractSpend(@, amount),
                         !.spendWeek  = SubtractSpend(@, amount)]
        ELSE IF cat.category = toCategory
        THEN [cat EXCEPT !.spendMonth = AddSpend(@, amount),
                         !.spendWeek  = AddSpend(@, amount)]
        ELSE cat)

\* BudgetView.handleTransactionMoved: the data and the drawer state after it.
ParentAfterMove(bv, amount, fromCategory, toCategory) ==
    IF ~bv.data.loaded THEN bv
    ELSE
    Bind(MovedCategories(bv.data.categories, amount, fromCategory, toCategory),
         LAMBDA updatedCategories :
    LET updatedDrawerCategory ==
            SelectSeq(updatedCategories, LAMBDA c : c.category = fromCategory)
    IN  [bv EXCEPT
            !.data.categories = updatedCategories,
            !.drawerState.category =
                IF /\ bv.drawerState.category.category = fromCategory
                   /\ updatedDrawerCategory # << >>
                THEN updatedDrawerCategory[1] ELSE @])

\* The spendAmount prop the drawer is rendered with, in cents.
SpendAmountProp(bv) == getSpendAmount(bv.viewMode, bv.drawerState.category)

\* useEffect(..., [spendAmount, category]) of CategoryDrawer after a render in
\* which the prop changed: the local amount and the selected month are reset,
\* and the list, whose effect depends on selectedMonth, fetches again.
DrawerEffect(before, after) ==
    IF SpendAmountProp(after) = SpendAmountProp(before) THEN after
    ELSE [after EXCEPT
            !.localSpendAmount = SpendAmountProp(after) * 10,
            !.selectedMonth = NoSelectedMonth,
            !.list.loading = @ \/ before.selectedMonth.selected]

\* [...prev, transaction].sort((a, b) => b.date - a.date)
RolledBackList(prev, transaction) == OrderByDateDesc(Append(prev, transaction))

\* What the user sees of the category: the listed transactions, the drawer's
\* spend amount and the rows of the budget view.
DisplayedBudget(bv) ==
    [listed |-> {t.id : t \in Range(bv.list.transactions)},
     localSpendAmount |-> bv.localSpendAmount,
     categories |-> bv.data.categories]

\* fetchBudgetData on mount.
FetchBudgetData ==
    /\ ~budgetView.data.loaded
    /\ resp' = BudgetOverviewGET("u1")
    /\ budgetView' = [budgetView EXCEPT !.data = OverviewData(resp'),
                                        !.last = [event |-> "overview"]]
    /\ UNCHANGED <<clockVars, storeVars, runs, upserts, view>>

\* setViewMode('monthly' | 'weekly')
SetViewMode ==
    /\ budgetView.data.loaded
    /\ ~budgetView.drawerState.isOpen
    /\ \E viewMode \in {"monthly", "weekly"} :
         /\ viewMode # budgetView.viewMode
         /\ budgetView' = [budgetView EXCEPT !.viewMode = viewMode,
                                             !.last = [event |-> "viewMode"]]
    /\ UNCHANGED <<clockVars, storeVars, runs, upserts, view, resp>>

\* handleOpenDrawer(category): the drawer mounts with the row's spend amount
\* and its list starts loading.
OpenDrawer ==
    /\ budgetView.data.loaded
    /\ ~budgetView.drawerState.isOpen
    /\ \E i \in DOMAIN budgetView.data.categories :
         LET category == budgetView.data.categories[i]
         IN  budgetView' =
                 [budgetView EXCEPT
                     !.drawerState = [isOpen |-> TRUE, category |-> category],
                     !.localSpendAmount =
                         getSpendAmount(budgetView.viewMode, category) * 10,
                     !.selectedMonth = NoSelectedMonth,
                     !.list = IdleList,
                     !.last = [event |-> "opened"]]
    /\ UNCHANGED <<clockVars, storeVars, runs, upserts, view, resp>>

\* handleMonthSelect(month): a bar of the three-month trend chart.
SelectMonth ==
    /\ budgetView.drawerState.isOpen
    /\ \E n \in 1 .. 3 :
         LET month == getLastThreeMonths.months[n]
         IN  budgetView' =
                 [budgetView EXCEPT
                     !.selectedMonth = [selected |-> TRUE,
                                        monthIndex |-> month.month,
                                        year |-> month.year],
                     !.list.loading = TRUE,
                     !.last = [event |-> "month"]]
    /\ UNCHANGED <<clockVars, storeVars, runs, upserts, view, resp>>

\* fetchTransactions of the list's effect.
FetchTransactions ==
    /\ budgetView.drawerState.isOpen
    /\ budgetView.list.loading
    /\ LET selectedMonth == budgetView.selectedMonth
       IN  resp' = CategoryTransactionsGET(
                       "u1", budgetView.drawerState.category.category,
                       budgetView.viewMode,
                       IF selectedMonth.selected
                       THEN ToString(selectedMonth.monthIndex) ELSE Null,
                       IF selectedMonth.selected
                       THEN ToString(selectedMonth.year) ELSE Null)
    /\ budgetView' =
           [budgetView EXCEPT
               !.list = [loading |-> FALSE,
                         transactions |-> resp'.transactions,
                         allCategories |-> resp'.allCategories],
               !.last = [event |-> "listed"]]
    /\ UNCHANGED <<clockVars, storeVars, runs, upserts, view>>

\* handleCategoryChange up to its await: the list drops the transaction, the
\* drawer and the budget view take the amount off the source category and
\* put it on the destination category.
StartMove ==
    /\ budgetView.drawerState.isOpen
    /\ ~budgetView.list.loading
    /\ Len(budgetView.moves) < MaxMoves
    /\ \E i \in DOMAIN budgetView.list.transactions,
          j \in DOMAIN budgetView.list.allCategories :
         LET transaction == budgetView.list.transactions[i]
             newCategory == budgetView.list.allCategories[j]
             category == budgetView.drawerState.category.category
             listed == [budgetView EXCEPT
                          !.pendingUpdates = @ \cup {transaction.id},
                          !.list.transactions =
                              SelectSeq(@, LAMBDA tx : tx.id # transaction.id),
                          !.localSpendAmount =
                              IF @ < transaction.amount THEN 0
                              ELSE @ - transaction.amount]
             moved == ParentAfterMove(listed, transaction.amount, category,
                                      newCategory)
         IN  /\ transaction.id \notin budgetView.pendingUpdates
             /\ newCategory # category
             /\ newCategory # transaction.normalized_category
             /\ budgetView' =
                    [DrawerEffect(listed, moved) EXCEPT
                        !.moves = Append(@,
                            [transaction |-> transaction,
                             fromCategory |-> category,
                             newCategory |-> newCategory,
                             before |-> DisplayedBudget(budgetView),
                             alone |-> budgetView.pendingUpdates = {},
                             settled |-> FALSE]),
                        !.last = [event |-> "moving",
                                  move |-> Len(budgetView.moves) + 1]]
    /\ UNCHANGED <<clockVars, storeVars, runs, upserts, view, resp>>

\* The rest of handleCategoryChange: updateTransactionCategory answers or
\* throws (the session has ended); a throw puts the transaction back into
\* the list; either way the transaction stops being pending.
SettleMove ==
    \E i \in DOMAIN budgetView.moves, caller \in {"u1", NoUser} :
        LET move == budgetView.moves[i]
            call == updateTransactionCategoryOn(
                        transactions, caller, Str(move.transaction.id),
                        Str(move.newCategory))
            ok == call.resp.status = 200
        IN  /\ ~move.settled
            /\ transactions' = call.transactions
            /\ resp' = call.resp
            /\ budgetView' =
                   [budgetView EXCEPT
                       !.list.transactions =
                           IF ok THEN @ ELSE RolledBackList(@, move.transaction),
                       !.pendingUpdates = @ \ {move.transaction.id},
                       !.moves[i].settled = TRUE,
                       !.last = [event |-> IF ok THEN "moved" ELSE "rolledBack",
                                 move |-> i]]
            /\ UNCHANGED <<clockVars, accounts, budgets, plaidItems, runs,
                           upserts, view>>

\* u1's transactions around the end of February 2024, and one of u2.
DrawerTransactions ==
    WithIds(<<TxDraft("u1", "a1", 25000, "GROCERY", FALSE, DaysFromCivil(2024, 2, 27)),
              TxDraft("u1", "a1", 40000, "GROCERY", FALSE, DaysFromCivil(2024, 2, 10)),
              TxDraft("u1", "a1", 12340, "TRAVEL", FALSE, DaysFromCivil(2024, 3, 1)),
              TxDraft("u1", "a1", 10000, "GROCERY", FALSE, DaysFromCivil(2024, 3, 14)),
              TxDraft("u1", "a1", 5000, "DINING", FALSE, DaysFromCivil(2024, 1, 15)),
              TxDraft("u2", "a2", 40000, "GROCERY", FALSE, DaysFromCivil(2024, 2, 27))>>)

DrawerClocks ==
    {[day |-> DaysFromCivil(2024, 2, 29), hour |-> 12],
     [day |-> DaysFromCivil(2024, 3, 1), hour |-> 12],
     [day |-> DaysFromCivil(2024, 3, 15), hour |-> 12]}

InitDrawer ==
    /\ now \in DrawerClocks
    /\ tz \in {0, 5}
    /\ accounts = AppAccounts
    /\ transactions = DrawerTransactions
    /\ budgets = AppBudgets
    /\ plaidItems = << >>
    /\ NoProcesses
    /\ resp = NoResp

NextDrawer ==
    \/ FetchBudgetData
    \/ SetViewMode
    \/ OpenDrawer
    \/ SelectMonth
    \/ FetchTransactions
    \/ StartMove
    \/ SettleMove

SpecDrawer == InitDrawer /\ [][NextDrawer]_vars

\* The move that has just been settled, alone in flight from start to end.
SoleMoveSettled(event) ==
    /\ budgetView.last.event = event
    /\ Len(budgetView.moves) = 1
    /\ budgetView.last.move = 1

\* C21: when the persisted write of a category move fails, the whole
\* optimistic change is rolled back to the snapshot taken before the move:
\* the transaction is listed again, the drawer's spend amount and the rows
\* of the budget view (spendMonth and spendWeek of the source and of the
\* destination category) are what they were before the move.
C21_FailedMoveRollsBackEverything ==
    SoleMoveSettled("rolledBack") =>
        LET move == budgetView.moves[1]
        IN  /\ ~budgetView.list.loading =>
                   move.transaction.id \in DisplayedBudget(budgetView).listed
            /\ budgetView.localSpendAmount = move.before.localSpendAmount
            /\ budgetView.data.categories = move.before.categories

-----------------------------------------------------------------------------
(* computeCategoryRollups on the accounts of any summary, in any order.     *)

\* How many accounts a summary has and how many transactions an account has.
MaxRollupAccounts == 2
MaxRollupTx == 2

RollupTxs ==
    [normalizedCategory : {"GROCERY", "TRAVEL", Null}, amount : {500, 1250}]

RollupAccounts == [transactions : SeqsUpTo(RollupTxs, MaxRollupTx)]

InitRollups ==
    /\ now = SummaryNow
    /\ tz = 0
    /\ accounts = << >>
    /\ transactions = << >>
    /\ budgets = << >>
    /\ plaidItems = << >>
    /\ NoProcesses
    /\ resp = NoResp

\* categoryRollups = computeCategoryRollups(data.accounts)
ComputeCategoryRollups ==
    /\ \E accs \in SeqsUpTo(RollupAccounts, MaxRollupAccounts) :
         resp' = [op |-> "computeCategoryRollups", accounts |-> accs,
                  rollups |-> computeCategoryRollups(accs)]
    /\ UNCHANGED <<clockVars, storeVars, procVars>>

NextRollups == FirstRequest /\ ComputeCategoryRollups

SpecRollups == InitRollups /\ [][NextRollups]_vars

\* a.localeCompare(b) < 0 for the category names of the model.
NameBefore(a, b) ==
    \E i, j \in DOMAIN CategoryOrder :
        CategoryOrder[i] = a /\ CategoryOrder[j] = b /\ i < j

\* The rollups are in descending order of their total amount.
RollupsDescending ==
    resp.op = "computeCategoryRollups" =>
        \A i, j \in DOMAIN resp.rollups :
            i < j => resp.rollups[i].totalAmount >= resp.rollups[j].totalAmount

\* C22: the rollups are sorted by descending total amount, and two rollups
\* of equal total amount appear in ascending order of their category names,
\* whatever the order of the accounts and transactions given.
C22_RollupsSortedTiesByName ==
    resp.op = "computeCategoryRollups" =>
        \A i, j \in DOMAIN resp.rollups :
            i < j =>
                LET a == resp.rollups[i]
                    b == resp.rollups[j]
                IN  /\ a.totalAmount >= b.totalAmount
                    /\ a.totalAmount = b.totalAmount =>
                           NameBefore(a.category, b.category)

-----------------------------------------------------------------------------
(* syncSharedSourceTransactions (lib/mockImport.ts) as POST /api/mock-import *)
(* calls it for u1 once runMockImport has returned, while u1 toggles the    *)
(* shared-source flag of accounts (PATCH /api/accounts/[id]) at any time.   *)
(* The run keeps the transactions table it found in storedAtStart; the code *)
(* never reads that field.                                                  *)

SyncAccounts(shared1, shared3) ==
    <<AccountRow("a1", "u1", shared1), AccountRow("a3", "u1", shared3),
      AccountRow("a2", "u2", TRUE)>>

SyncTransactions(shared) ==
    WithIds(<<TxDraft("u1", "a1", 25000, "GROCERY", shared, SummaryNow.day - 2),
              TxDraft("u1", "a3", 40000, "TRAVEL", FALSE, SummaryNow.day - 1),
              TxDraft("u1", "a3", 12340, "GROCERY", TRUE, SummaryNow.day - 1),
              TxDraft("u2", "a2", 40000, "GROCERY", FALSE, SummaryNow.day - 1)>>)

InitSync ==
    /\ now = SummaryNow
    /\ tz = 0
    /\ \E shared1, shared3 \in BOOLEAN : accounts = SyncAccounts(shared1, shared3)
    /\ \E shared \in BOOLEAN : transactions = SyncTransactions(shared)
    /\ budgets = << >>
    /\ plaidItems = << >>
    /\ NoProcesses
    /\ resp = NoResp

\* const transactionsSynced = await syncSharedSourceTransactions(user.id)
CallSync ==
    /\ runs[1].pc = "idle"
    /\ runs' = [runs EXCEPT ![1] =
                   [IdleRun EXCEPT !.pc = "sync_read", !.kind = "mock",
                                   !.user = "u1", !.storedAtStart = transactions]]
    /\ UNCHANGED <<clockVars, storeVars, upserts, view, budgetView, resp>>

\* u1 switches the shared-source flag of one of their accounts.
ToggleSharedSource ==
    /\ \E id \in {"a1", "a3"}, shared \in BOOLEAN :
         AccountPATCH("u1", id, [is_shared_source |-> Bool(shared)])
    /\ UNCHANGED <<clockVars, transactions, budgets, plaidItems, procVars>>

NextSync ==
    \/ CallSync
    \/ SyncRead(1)
    \/ SyncUpdate(1)
    \/ ToggleSharedSource

SpecSync == InitSync /\ [][NextSync]_vars

\* syncSharedSourceTransactions has just returned to the route.
SyncReturned == resp.op = "mock-import" /\ runs[1].pc = "done"

SharedSourceNow(accountId) ==
    \E a \in Range(accounts) : a.id = accountId /\ a.is_shared_source

\* No account PATCH was answered while the function ran: the flags are those
\* its first query read.
NoToggleDuringSync == runs[1].sharedAccountIds =
    {a.id : a \in {x \in Range(accounts) : x.user_id = "u1" /\ x.is_shared_source}}

\* C24: when syncSharedSourceTransactions returns, every transaction of the
\* user under a shared-source account is shared and no transaction under an
\* account that is not a shared source has been modified, also when an
\* account PATCH toggles the flag between the function's two store calls.
C24_SyncMatchesSharedSources ==
    SyncReturned =>
        \A i \in DOMAIN transactions :
            LET t == transactions[i]
            IN  t.user_id = "u1" =>
                    IF SharedSourceNow(t.account_id)
                    THEN t.is_shared
                    ELSE t = runs[1].storedAtStart[i]

\* Without a toggle between the two store calls the function does what C24
\* says.
SyncMatchesWithoutToggle ==
    (SyncReturned /\ NoToggleDuringSync) =>
        \A i \in DOMAIN transactions :
            LET t == transactions[i]
            IN  t.user_id = "u1" =>
                    IF SharedSourceNow(t.account_id)
                    THEN t.is_shared
                    ELSE t = runs[1].storedAtStart[i]

\* spendMonth and spendWeek of a category in the rows of an overview; a
\* category without a row has spent nothing.
SpendOf(categories, category) ==
    LET rows == SelectSeq(categories, LAMBDA r : r.category = category)
    IN  IF rows = << >> THEN [spendMonth |-> 0, spendWeek |-> 0]
        ELSE [spendMonth |-> rows[1].spendMonth, spendWeek |-> rows[1].spendWeek]

\* C28: after a successful category move of one transaction in the drawer,
\* from the monthly or the weekly view or from a month selected in the trend
\* chart, to any category the dropdown offers, spendMonth and spendWeek of
\* every category shown by BudgetView are the values a fresh budget-overview
\* fetch returns.
C28_MovedTotalsMatchFreshOverview ==
    SoleMoveSettled("moved") =>
        LET fresh == BudgetOverviewGET("u1").categories
        IN  \A i \in DOMAIN budgetView.data.categories :
                LET category == budgetView.data.categories[i].category
                IN  SpendOf(budgetView.data.categories, category) =
                        SpendOf(fresh, category)

\* The move of a transaction dated in the current month and in the current
\* week, between two categories that both have a row, on a server whose clock
\* is UTC: there the adjusted totals are the fresh ones.
MoveInsideMonthAndWeekMatches ==
    (/\ SoleMoveSettled("moved")
     /\ tz = 0
     /\ LET move == budgetView.moves[1]
        IN  /\ move.transaction.date \in FirstOfMonth(now) .. LastOfMonth(now)
            /\ move.transaction.date \in MondayOf(now) .. (MondayOf(now) + 6)
            /\ \E c \in Range(move.before.categories) : c.category = move.newCategory)
    => LET fresh == BudgetOverviewGET("u1").categories
       IN  \A i \in DOMAIN budgetView.data.categories :
               LET category == budgetView.data.categories[i].category
               IN  SpendOf(budgetView.data.categories, category) =
                       SpendOf(fresh, category)

-----------------------------------------------------------------------------
(* Plaid syncs of u1's item, one after the other, while u1 toggles the      *)
(* shared-source flag of the imported accounts (PATCH /api/accounts/[id])   *)
(* at any time, also between two store calls of a sync.                     *)

\* u1 switches the shared-source flag of an account the store holds.
TogglePlaidAccount ==
    /\ \E a \in Range(accounts), shared \in BOOLEAN :
         AccountPATCH("u1", a.id, [is_shared_source |-> Bool(shared)])
    /\ UNCHANGED <<clockVars, transactions, budgets, plaidItems, procVars>>

\* The store calls of importPlaidDataForUser.
PlaidStep(r) ==
    \/ AccountCheck(r)
    \/ AccountInsert(r)
    \/ AccountUpdate(r)
    \/ TransactionsFetch(r)
    \/ TransactionCheck(r)
    \/ TransactionInsert(r)

NextToggle ==
    \/ \E r \in RunIds : NoRunInProgress /\ StartPlaidSync(r)
    \/ \E r \in RunIds : PlaidStep(r)
    \/ TogglePlaidAccount

SpecToggle == InitImport /\ [][NextToggle]_vars

\* C29: importPlaidDataForUser never changes is_shared_source of an account
\* that exists, and it creates accounts with the flag off; only an account
\* PATCH sets the flag, to the value it was sent. So after any sequence of
\* toggles and syncs every imported account has the value of its last toggle,
\* or false when it was never toggled.
C29_SyncKeepsSharedSource ==
    [][/\ Len(accounts') >= Len(accounts)
       /\ \A i \in DOMAIN accounts' :
              IF i \notin DOMAIN accounts
              THEN ~accounts'[i].is_shared_source
              ELSE /\ accounts'[i].id = accounts[i].id
                   /\ IF /\ runs' = runs
                         /\ resp'.op = "account-patch" /\ resp'.status = 200
                         /\ resp'.request.id = accounts[i].id
                      THEN accounts'[i].is_shared_source =
                               resp'.request.body.is_shared_source.b
                      ELSE accounts'[i].is_shared_source =
                               accounts[i].is_shared_source]_vars

\* A sync has found the imported account, whose flag u1 had switched on, and
\* has updated it; it has just returned and the flag is still on.
C29_Witness ==
    /\ resp.op = "plaid-sync"
    /\ \E r \in RunIds : runs[r].pc = "done" /\ runs[r].accountsUpdated = 1
    /\ \E a \in Range(accounts) : a.provider = "plaid" /\ a.is_shared_source

-----------------------------------------------------------------------------
(* The transaction pagination of importPlaidDataForUser (plaidImport.ts,    *)
(* part_013 213-234) for one item of u1. The provider answers every         *)
(* transactionsGet request with a page of any size, or the request fails    *)
(* and the item's catch block ends the work on the item. The run counts the *)
(* transactions collected; the import steps elsewhere in this module take   *)
(* the list this loop ends with as one answer (TransactionsFetch).          *)

\* The largest total_transactions and the largest page the provider sends.
MaxTotalTransactions == 6
MaxPageSize == 3

\* The requests made are counted modulo PageClock: every request is a step.
PageClock == 2

PagingRun ==
    [IdleRun EXCEPT !.kind = "plaid", !.user = "u1"]
        @@ [collected |-> 0, totalTransactions |-> 0, requests |-> 0]

\* The loop condition: transactions.length < totalTransactions.
MorePages(collected, totalTransactions) == collected < totalTransactions

\* The accounts of the item are done; transactionsGet is about to be called.
StartPaging ==
    /\ runs[1].pc = "idle"
    /\ runs' = [runs EXCEPT ![1] = [PagingRun EXCEPT !.pc = "tx_fetch"]]
    /\ UNCHANGED <<clockVars, storeVars, upserts, view, budgetView, resp>>

\* The first transactionsGet: its transactions and total_transactions.
FirstPage ==
    /\ runs[1].pc = "tx_fetch"
    /\ \/ \E n \in 0 .. MaxPageSize, total \in 0 .. MaxTotalTransactions :
            runs' = [runs EXCEPT ![1] =
                        [@ EXCEPT !.collected = n,
                                  !.totalTransactions = total,
                                  !.requests = 1 % PageClock,
                                  !.pc = IF MorePages(n, total)
                                         THEN "tx_page" ELSE "tx_process"]]
       \/ runs' = [runs EXCEPT ![1] = [@ EXCEPT !.pc = "item_failed", !.errors = 1]]
    /\ UNCHANGED <<clockVars, storeVars, upserts, view, budgetView, resp>>

\* One turn of the while loop: transactionsGet with offset
\* transactions.length, its page concatenated; the provider sends a page of
\* one of the sizes given.
NextPageOf(sizes) ==
    /\ runs[1].pc = "tx_page"
    /\ \/ \E n \in sizes :
            runs' = [runs EXCEPT ![1] =
                        [@ EXCEPT !.collected = @ + n,
                                  !.requests = (@ + 1) % PageClock,
                                  !.pc = IF MorePages(runs[1].collected + n,
                                                      runs[1].totalTransactions)
                                         THEN "tx_page" ELSE "tx_process"]]
       \/ runs' = [runs EXCEPT ![1] = [@ EXCEPT !.pc = "item_failed", !.errors = 1]]
    /\ UNCHANGED <<clockVars, storeVars, upserts, view, budgetView, resp>>

NextPage == NextPageOf(0 .. MaxPageSize)

NextPaging == StartPaging \/ FirstPage \/ NextPage

\* Every request is answered, so the loop goes on while it can.
SpecPaging == InitImport /\ [][NextPaging]_vars /\ WF_vars(NextPaging)

\* The loop has ended: the transactions are processed, or the item failed.
PagingEnded == runs[1].pc \in {"tx_process", "item_failed"}

\* C30: the pagination loop terminates for every sequence of provider
\* responses, also when a page has no transactions while fewer than
\* total_transactions have been collected.
C30_PaginationTerminates == (runs[1].pc = "tx_fetch") ~> PagingEnded

=============================================================================
